---- MODULE Spec2Model ----
(***************************************************************************)
(* Model of ai-commit's staged-change classifier (src/git/mod.rs):         *)
(* get_staged_changes_summary and get_binary_status_map, over the raw byte *)
(* reports of `git status --porcelain=v1 -z` and `git diff --staged        *)
(* --numstat -z`.  Bytes are integers 0..255, strings are sequences of     *)
(* bytes, so that NUL splitting, UTF-8 decoding, byte-offset slicing and   *)
(* the lexicographic sort are computed as the code computes them.          *)
(***************************************************************************)
EXTENDS Integers, Sequences, FiniteSets, TLC

VARIABLES
    status_check_output_bytes,  \* stdout of git status --porcelain=v1 -z
    numstat_output_bytes,       \* stdout of git diff --staged --numstat -z
    pc,                         \* position inside get_staged_changes_summary
    fields_iter,                \* get_binary_status_map: fields not yet read
    binary_map,                 \* get_binary_status_map: HashMap<String, bool>
    status_fields_iter,         \* get_staged_changes_summary: fields not yet read
    summary,                    \* the local StagedChangesSummary being filled
    result,                     \* what the call returned
    \* preprocess_diff_for_ai (src/diff/mod.rs)
    raw_diff,                   \* the argument, a str as bytes
    lines_iter,                 \* raw_diff.lines(): the lines not yet read
    processed_lines,            \* the Vec of transformed lines
    annotated,                  \* the String returned
    diff_pc,                    \* position inside preprocess_diff_for_ai
    diff_pass,                  \* 1: first application, 2: applied to its own output
    \* process_api_response_candidates (src/ai/mod.rs)
    api_response_candidates,    \* the argument, Option<Vec<Candidate>>
    max_suggestions_to_return,  \* the argument, u32
    suggestions,                \* the Vec of suggestions being filled
    ai_cursor,                  \* where the three nested loops stand
    ai_pc,                      \* position inside process_api_response_candidates
    ai_result,                  \* what the call returned
    \* the repository, has_staged_files, commit_staged_files, amend_commit
    repo_files,                 \* per tracked path: staged and unstaged change
    repo_commits,               \* the messages of the commits, oldest first
    git_invocations,            \* the git commands run so far
    call,                       \* the call in progress or last made
    call_result,                \* what that call returned
    \* main and interactive_commit_loop (src/main.rs)
    args,                       \* Args: the flags interactive and amend
    main_pc,                    \* position inside main
    main_calls,                 \* the calls main has made into git and ai, in order
    previous_commit_msg,        \* amend modes: the previous commit message
    preprocessed_diff_text,     \* the annotated staged diff
    changes_summary,            \* the StagedChangesSummary
    suggestions_result,         \* what the last ai::generate_text returned
    prompt_result,              \* what the last Select::prompt() returned
    loop_result,                \* what interactive_commit_loop returned
    main_result                 \* what main returned

summaryVars == <<status_check_output_bytes, numstat_output_bytes, pc, fields_iter,
                 binary_map, status_fields_iter, summary, result>>

diffVars == <<raw_diff, lines_iter, processed_lines, annotated, diff_pc, diff_pass>>

aiVars == <<api_response_candidates, max_suggestions_to_return, suggestions,
            ai_cursor, ai_pc, ai_result>>

repoVars == <<repo_files, repo_commits, git_invocations, call, call_result>>

mainVars == <<args, main_pc, main_calls, previous_commit_msg, preprocessed_diff_text,
              changes_summary, suggestions_result, prompt_result, loop_result,
              main_result>>

vars == <<summaryVars, diffVars, aiVars, repoVars, mainVars>>

-----------------------------------------------------------------------------
(* Bounds of the explored inputs.                                          *)

MaxStatusFields == 3

MaxNumstatFields == 3

-----------------------------------------------------------------------------
(* Byte values.                                                            *)

NUL == 0

TAB == 9

PERCENT == 37

PLUS == 43

DASH == 45

\* Rust's Ord for String and for [u8]: bytewise lexicographic, a proper
\* prefix is smaller.
RECURSIVE BytesLess(_, _)
BytesLess(a, b) ==
    IF b = <<>> THEN FALSE
    ELSE IF a = <<>> THEN TRUE
    ELSE IF a[1] # b[1] THEN a[1] < b[1]
    ELSE BytesLess(Tail(a), Tail(b))

\* slice.split(|&b| b == sep): the segments between separators, empty
\* segments included (n separators give n + 1 segments).
RECURSIVE SplitFrom(_, _, _, _)
SplitFrom(bytes, sep, i, cur) ==
    IF i > Len(bytes) THEN <<cur>>
    ELSE IF bytes[i] = sep THEN <<cur>> \o SplitFrom(bytes, sep, i + 1, <<>>)
    ELSE SplitFrom(bytes, sep, i + 1, Append(cur, bytes[i]))

Split(bytes, sep) == SplitFrom(bytes, sep, 1, <<>>)

\* .filter(|s| !s.is_empty())
FilterNonEmpty(segs) == SelectSeq(segs, LAMBDA s : s # <<>>)

\* Mutant of EmptyOrAllNul: only the empty report counts as empty.
EmptyOrAllNul_EmptyOnly(bytes) == bytes = <<>>

\* bytes.is_empty() || bytes.iter().all(|&b| b == 0)
EmptyOrAllNul(bytes) == bytes = <<>> \/ \A i \in 1..Len(bytes) : bytes[i] = NUL

IsCont(b) == b >= 128 /\ b <= 191

\* str::from_utf8(..).is_ok(): well-formed UTF-8 (no overlong forms, no
\* surrogates, nothing above U+10FFFF).
RECURSIVE Utf8From(_, _)
Utf8From(s, i) ==
    LET n == Len(s)
        b == s[i]
        c(k) == i + k <= n /\ IsCont(s[i + k])
        in2(lo, hi) == i + 1 <= n /\ s[i + 1] >= lo /\ s[i + 1] <= hi
    IN  IF i > n THEN TRUE
        ELSE IF b < 128 THEN Utf8From(s, i + 1)
        ELSE IF b >= 194 /\ b <= 223 THEN c(1) /\ Utf8From(s, i + 2)
        ELSE IF b = 224 THEN in2(160, 191) /\ c(2) /\ Utf8From(s, i + 3)
        ELSE IF b = 237 THEN in2(128, 159) /\ c(2) /\ Utf8From(s, i + 3)
        ELSE IF b >= 225 /\ b <= 239 THEN c(1) /\ c(2) /\ Utf8From(s, i + 3)
        ELSE IF b = 240 THEN in2(144, 191) /\ c(2) /\ c(3) /\ Utf8From(s, i + 4)
        ELSE IF b = 244 THEN in2(128, 143) /\ c(2) /\ c(3) /\ Utf8From(s, i + 4)
        ELSE IF b >= 241 /\ b <= 243 THEN c(1) /\ c(2) /\ c(3) /\ Utf8From(s, i + 4)
        ELSE FALSE

IsUtf8(s) == Utf8From(s, 1)

\* str::is_char_boundary(idx), idx a 0-based byte offset into a valid str.
IsCharBoundary(s, idx) ==
    \/ idx = 0
    \/ idx = Len(s)
    \/ idx < Len(s) /\ ~IsCont(s[idx + 1])

\* &s[from..to] with 0-based byte offsets (the caller has checked the
\* boundaries, as the slice operator does before it panics).
Slice(s, from, to) == SubSeq(s, from + 1, to)

RECURSIVE StripZeros(_)
StripZeros(d) == IF d # <<>> /\ d[1] = 48 THEN StripZeros(Tail(d)) ELSE d

\* "4294967295", u32::MAX
U32MaxDigits == <<52, 50, 57, 52, 57, 54, 55, 50, 57, 53>>

\* s.parse::<u32>().is_ok(): an optional '+', then one or more decimal
\* digits whose value fits 32 bits.  The value is compared digit-wise.
ParseU32Ok(s) ==
    LET d == IF Len(s) > 1 /\ s[1] = PLUS THEN Tail(s) ELSE s
        z == StripZeros(d)
    IN  /\ d # <<>>
        /\ \A i \in 1..Len(d) : d[i] >= 48 /\ d[i] <= 57
        /\ \/ Len(z) < Len(U32MaxDigits)
           \/ Len(z) = Len(U32MaxDigits) /\ ~BytesLess(U32MaxDigits, z)

\* binary_map.get(path).copied().unwrap_or(false)
IsBinaryFile(map, path) == path \in DOMAIN map /\ map[path]

\* binary_map.insert(key, value)
MapInsert(map, key, value) == (key :> value) @@ map

EmptyMap == [p \in {} |-> FALSE]

\* Vec<String>::sort(): a stable sort by String's Ord.
RECURSIVE InsertSorted(_, _)
InsertSorted(sorted, e) ==
    IF sorted = <<>> THEN <<e>>
    ELSE IF BytesLess(e, sorted[1]) THEN <<e>> \o sorted
    ELSE <<sorted[1]>> \o InsertSorted(Tail(sorted), e)

\* Mutant of SortStrings: sorts and drops repeated entries (sort + dedup).
RECURSIVE InsertSortedDedup(_, _)
InsertSortedDedup(sorted, e) ==
    IF sorted = <<>> THEN <<e>>
    ELSE IF e = sorted[1] THEN sorted
    ELSE IF BytesLess(e, sorted[1]) THEN <<e>> \o sorted
    ELSE <<sorted[1]>> \o InsertSortedDedup(Tail(sorted), e)

RECURSIVE SortStrings_Dedup(_)
SortStrings_Dedup(v) ==
    IF v = <<>> THEN <<>>
    ELSE InsertSortedDedup(SortStrings_Dedup(SubSeq(v, 1, Len(v) - 1)), v[Len(v)])

RECURSIVE SortStrings(_)
SortStrings(v) ==
    IF v = <<>> THEN <<>>
    ELSE InsertSorted(SortStrings(SubSeq(v, 1, Len(v) - 1)), v[Len(v)])

-----------------------------------------------------------------------------
(* Errors: an anyhow chain, outermost context first.                       *)

Ctx(msg, arg) == [msg |-> msg, arg |-> arg]

NoResult == [tag |-> "None"]

Ok(value) == [tag |-> "Ok", value |-> value]

Err(chain) == [tag |-> "Err", chain |-> chain]

\* StagedChangesSummary::default()
DefaultSummary == [binary_file_changes |-> <<>>, structure_changes |-> <<>>]

-----------------------------------------------------------------------------
(* get_binary_status_map: one pass of the `while let` loop.                *)

\* Mutant of IsBinaryStats: one dash is enough.
IsBinaryStats_EitherDash(added_str, deleted_str) ==
    added_str = <<DASH>> \/ deleted_str = <<DASH>>

\* parts[0] == "-" && parts[1] == "-"
IsBinaryStats(added_str, deleted_str) ==
    added_str = <<DASH>> /\ deleted_str = <<DASH>>

\* third_part_str.ends_with('%') && len > 1 && prefix.parse::<u32>().is_ok()
IsSimilarityScore(third_part_str) ==
    /\ third_part_str # <<>>
    /\ third_part_str[Len(third_part_str)] = PERCENT
    /\ Len(third_part_str) > 1
    /\ ParseU32Ok(SubSeq(third_part_str, 1, Len(third_part_str) - 1))

\* The three "pull old_path, pull new_path, decode new_path, insert" blocks;
\* shape names which of the three it is (it only words the error).
ConsumeOldNew(rest, map, is_binary_stats, lead, shape) ==
    IF Len(rest) < 1 THEN
        [fields |-> rest, map |-> map,
         err |-> <<Ctx("Expected old_path", <<shape, lead>>)>>]
    ELSE IF Len(rest) < 2 THEN
        [fields |-> <<>>, map |-> map,
         err |-> <<Ctx("Expected new_path after old_path", <<shape, lead>>)>>]
    ELSE IF ~IsUtf8(rest[2]) THEN
        [fields |-> SubSeq(rest, 3, Len(rest)), map |-> map,
         err |-> <<Ctx("Non-UTF8 new_path", <<shape, rest[2]>>)>>]
    ELSE
        [fields |-> SubSeq(rest, 3, Len(rest)),
         map |-> MapInsert(map, rest[2], is_binary_stats),
         err |-> <<>>]

\* Mutant of NumstatStep: a lead of more than three columns is read as a
\* three-column lead.
NumstatStep_AtLeastThree(fields, map) ==
    LET first_segment == fields[1]
        rest == Tail(fields)
        parts == Split(first_segment, TAB)
    IN  IF ~IsUtf8(first_segment) THEN
            [fields |-> rest, map |-> map,
             err |-> <<Ctx("Non-UTF8 first_segment in numstat", first_segment)>>]
        ELSE IF Len(parts) >= 3 THEN
            LET is_binary_stats == IsBinaryStats(parts[1], parts[2])
                third_part_str == parts[3]
            IN  IF third_part_str = <<>> THEN
                    ConsumeOldNew(rest, map, is_binary_stats, first_segment,
                                  "empty third part")
                ELSE IF IsSimilarityScore(third_part_str) THEN
                    ConsumeOldNew(rest, map, is_binary_stats, first_segment,
                                  "similarity score")
                ELSE
                    [fields |-> rest,
                     map |-> MapInsert(map, third_part_str, is_binary_stats),
                     err |-> <<>>]
        ELSE IF Len(parts) = 2 THEN
            ConsumeOldNew(rest, map, IsBinaryStats(parts[1], parts[2]),
                          first_segment, "2-part numstat")
        ELSE
            [fields |-> rest, map |-> map, err |-> <<>>]

\* The body of the loop for the lead `fields[1]`.
NumstatStep(fields, map) ==
    LET first_segment == fields[1]
        rest == Tail(fields)
        parts == Split(first_segment, TAB)
    IN  IF ~IsUtf8(first_segment) THEN
            [fields |-> rest, map |-> map,
             err |-> <<Ctx("Non-UTF8 first_segment in numstat", first_segment)>>]
        ELSE IF Len(parts) = 3 THEN
            LET is_binary_stats == IsBinaryStats(parts[1], parts[2])
                third_part_str == parts[3]
            IN  IF third_part_str = <<>> THEN
                    ConsumeOldNew(rest, map, is_binary_stats, first_segment,
                                  "empty third part")
                ELSE IF IsSimilarityScore(third_part_str) THEN
                    ConsumeOldNew(rest, map, is_binary_stats, first_segment,
                                  "similarity score")
                ELSE
                    [fields |-> rest,
                     map |-> MapInsert(map, third_part_str, is_binary_stats),
                     err |-> <<>>]
        ELSE IF Len(parts) = 2 THEN
            ConsumeOldNew(rest, map, IsBinaryStats(parts[1], parts[2]),
                          first_segment, "2-part numstat")
        ELSE
            [fields |-> rest, map |-> map, err |-> <<>>]

-----------------------------------------------------------------------------
(* get_staged_changes_summary: the format! strings.                        *)

\* "added binary file: {}"
FmtAddedBinary(path) ==
    <<97, 100, 100, 101, 100, 32, 98, 105, 110, 97, 114, 121, 32, 102, 105,
      108, 101, 58, 32>> \o path

\* "deleted file: {}"
FmtDeleted(path) ==
    <<100, 101, 108, 101, 116, 101, 100, 32, 102, 105, 108, 101, 58, 32>>
    \o path

\* " to "
FmtTo == <<32, 116, 111, 32>>

\* "renamed: {} to {}"
FmtRenamed(old_path, path) ==
    <<114, 101, 110, 97, 109, 101, 100, 58, 32>> \o old_path \o FmtTo \o path

\* "renamed binary file: {} to {}"
FmtRenamedBinary(old_path, path) ==
    <<114, 101, 110, 97, 109, 101, 100, 32, 98, 105, 110, 97, 114, 121, 32,
      102, 105, 108, 101, 58, 32>> \o old_path \o FmtTo \o path

\* "modified binary file: {}"
FmtModifiedBinary(path) ==
    <<109, 111, 100, 105, 102, 105, 101, 100, 32, 98, 105, 110, 97, 114, 121,
      32, 102, 105, 108, 101, 58, 32>> \o path

\* "type changed for: {}"
FmtTypeChanged(path) ==
    <<116, 121, 112, 101, 32, 99, 104, 97, 110, 103, 101, 100, 32, 102, 111,
      114, 58, 32>> \o path

\* "type changed to binary: {}"
FmtTypeChangedBinary(path) ==
    <<116, 121, 112, 101, 32, 99, 104, 97, 110, 103, 101, 100, 32, 116, 111,
      32, 98, 105, 110, 97, 114, 121, 58, 32>> \o path

\* "copied: {} to {}"
FmtCopied(old_path, path) ==
    <<99, 111, 112, 105, 101, 100, 58, 32>> \o old_path \o FmtTo \o path

\* "copied binary file to: {}"
FmtCopiedBinary(path) ==
    <<99, 111, 112, 105, 101, 100, 32, 98, 105, 110, 97, 114, 121, 32, 102,
      105, 108, 101, 32, 116, 111, 58, 32>> \o path

PushBinary(summ, desc) ==
    [summ EXCEPT !.binary_file_changes = Append(@, desc)]

PushStructure(summ, desc) ==
    [summ EXCEPT !.structure_changes = Append(@, desc)]

-----------------------------------------------------------------------------
(* get_staged_changes_summary: the arms of `match idx_status`.  old_opt is *)
(* old_path_opt_string: <<>> for None, <<old>> for Some(old).              *)

\* Mutant of ArmA: a path absent from the map counts as binary
\* (unwrap_or(true)).
ArmA_AbsentIsBinary(summ, path, old_opt, map) ==
    IF path \notin DOMAIN map \/ map[path]
    THEN PushBinary(summ, FmtAddedBinary(path))
    ELSE summ

ArmA(summ, path, old_opt, map) ==
    IF IsBinaryFile(map, path) THEN PushBinary(summ, FmtAddedBinary(path))
    ELSE summ

\* Mutant of ArmD: the deletion of a binary file is filed as a binary change.
ArmD_BinaryAware(summ, path, old_opt, map) ==
    IF IsBinaryFile(map, path) THEN PushBinary(summ, FmtDeleted(path))
    ELSE PushStructure(summ, FmtDeleted(path))

ArmD(summ, path, old_opt, map) == PushStructure(summ, FmtDeleted(path))

\* Mutant of ArmR: no test that both paths are non-empty (as in the copy arm).
ArmR_NoEmptyCheck(summ, path, old_opt, map) ==
    IF old_opt # <<>> THEN
        LET renamed == PushStructure(summ, FmtRenamed(old_opt[1], path))
        IN  IF IsBinaryFile(map, path)
            THEN PushBinary(renamed, FmtRenamedBinary(old_opt[1], path))
            ELSE renamed
    ELSE summ

ArmR(summ, path, old_opt, map) ==
    IF old_opt # <<>> /\ old_opt[1] # <<>> /\ path # <<>> THEN
        LET renamed == PushStructure(summ, FmtRenamed(old_opt[1], path))
        IN  IF IsBinaryFile(map, path)
            THEN PushBinary(renamed, FmtRenamedBinary(old_opt[1], path))
            ELSE renamed
    ELSE summ

\* Mutant of ArmM: the entry for a modified binary file is filed under
\* structure_changes.
ArmM_ToStructure(summ, path, old_opt, map) ==
    IF IsBinaryFile(map, path) THEN PushStructure(summ, FmtModifiedBinary(path))
    ELSE summ

ArmM(summ, path, old_opt, map) ==
    IF IsBinaryFile(map, path) THEN PushBinary(summ, FmtModifiedBinary(path))
    ELSE summ

\* Mutant of ArmT: the binary entry replaces the structure entry (if/else).
ArmT_EitherOr(summ, path, old_opt, map) ==
    IF IsBinaryFile(map, path)
    THEN PushBinary(summ, FmtTypeChangedBinary(path))
    ELSE PushStructure(summ, FmtTypeChanged(path))

ArmT(summ, path, old_opt, map) ==
    LET changed == PushStructure(summ, FmtTypeChanged(path))
    IN  IF IsBinaryFile(map, path)
        THEN PushBinary(changed, FmtTypeChangedBinary(path))
        ELSE changed

\* Mutant of ArmOther: a worktree code M in second place is taken as a
\* modification.
ArmOther_SecondCode(summ, status_codes, path, old_opt, map) ==
    IF status_codes[1] = 67 THEN
        LET copied == IF old_opt # <<>>
                      THEN PushStructure(summ, FmtCopied(old_opt[1], path))
                      ELSE summ
        IN  IF IsBinaryFile(map, path)
            THEN PushBinary(copied, FmtCopiedBinary(path))
            ELSE copied
    ELSE IF status_codes[2] = 77 THEN ArmM(summ, path, old_opt, map)
    ELSE summ

\* The `_` arm: only a status that starts with 'C' does anything.
ArmOther(summ, status_codes, path, old_opt, map) ==
    IF status_codes[1] = 67 THEN
        LET copied == IF old_opt # <<>>
                      THEN PushStructure(summ, FmtCopied(old_opt[1], path))
                      ELSE summ
        IN  IF IsBinaryFile(map, path)
            THEN PushBinary(copied, FmtCopiedBinary(path))
            ELSE copied
    ELSE summ

MatchIdxStatus(summ, status_codes, path, old_opt, map) ==
    LET idx_status == status_codes[1]
    IN  CASE idx_status = 65 -> ArmA(summ, path, old_opt, map)
          [] idx_status = 68 -> ArmD(summ, path, old_opt, map)
          [] idx_status = 82 -> ArmR(summ, path, old_opt, map)
          [] idx_status = 77 -> ArmM(summ, path, old_opt, map)
          [] idx_status = 84 -> ArmT(summ, path, old_opt, map)
          [] OTHER -> ArmOther(summ, status_codes, path, old_opt, map)

\* status_codes.starts_with('R') || status_codes.starts_with('C')
IsRenameOrCopy(status_codes) == status_codes[1] = 82 \/ status_codes[1] = 67

\* The lead can be cut at byte offsets 2 and 3: &lead[0..2] and &lead[3..]
\* panic when an offset falls inside a multi-byte character.
LeadSlices(lead) == IsCharBoundary(lead, 2) /\ IsCharBoundary(lead, 3)

\* Mutant of OldPathDecodes: a lossy decode that never fails.
OldPathDecodes_Lossy(old_path_bytes) == TRUE

\* str::from_utf8(old_path_bytes).is_ok() for the field after an R/C lead.
OldPathDecodes(old_path_bytes) == IsUtf8(old_path_bytes)

\* The body of the status loop for the lead `fields[1]`.  outcome is
\* "continue" (next iteration), "err" (the `?` returned) or "panic".
StatusStep(fields, map, summ) ==
    LET entry_lead == fields[1]
        rest == Tail(fields)
        stay(o, e) == [fields |-> rest, summary |-> summ, outcome |-> o, err |-> e]
    IN  IF ~IsUtf8(entry_lead) THEN
            stay("err", <<Ctx("Failed to parse status entry lead", entry_lead)>>)
        ELSE IF Len(entry_lead) < 3 THEN stay("continue", <<>>)
        ELSE IF ~LeadSlices(entry_lead) THEN stay("panic", <<>>)
        ELSE
            LET status_codes == Slice(entry_lead, 0, 2)
                path_part1 == Slice(entry_lead, 3, Len(entry_lead))
                takes_old == IsRenameOrCopy(status_codes) /\ rest # <<>>
            IN  IF takes_old /\ ~OldPathDecodes(rest[1]) THEN
                    [fields |-> Tail(rest), summary |-> summ, outcome |-> "err",
                     err |-> <<Ctx("Failed to parse old_path for status",
                                   <<status_codes, rest[1]>>)>>]
                ELSE
                    LET old_opt == IF takes_old THEN <<rest[1]>> ELSE <<>>
                    IN  [fields |-> IF takes_old THEN Tail(rest) ELSE rest,
                         summary |-> MatchIdxStatus(summ, status_codes,
                                                    path_part1, old_opt, map),
                         outcome |-> "continue",
                         err |-> <<>>]

-----------------------------------------------------------------------------
(* The reports explored.  A report is a run of fields, each closed by a    *)
(* NUL as `-z` writes them; the empty field stands for a stray NUL.        *)

RECURSIVE JoinFields(_)
JoinFields(fs) ==
    IF fs = <<>> THEN <<>> ELSE fs[1] \o <<NUL>> \o JoinFields(Tail(fs))

Reports(fieldSet, n) ==
    { JoinFields(fs) : fs \in UNION { [1..k -> fieldSet] : k \in 0..n } }

StatusFieldSet ==
    { <<>>,                    \* a stray NUL
      <<65, 32, 32, 97>>,      \* "A  a"
      <<68, 32, 32, 97>>,      \* "D  a"
      <<68, 32, 32>>,          \* "D  "   (empty path)
      <<82, 32, 32, 97>>,      \* "R  a"
      <<82, 32, 32>>,          \* "R  "   (empty new path)
      <<67, 32, 32, 97>>,      \* "C  a"
      <<67, 32, 32>>,          \* "C  "   (empty new path)
      <<77, 77, 32, 97>>,      \* "MM a"
      <<84, 32, 32, 97>>,      \* "T  a"
      <<32, 77, 32, 97>>,      \* " M a"  (nothing staged for a)
      <<98>>,                  \* "b"     (an old path, or a lead too short)
      <<255>>,                 \* not UTF-8
      <<65, 195, 169>>,        \* "A\u{e9}": offset 2 is inside the e-acute
      <<65, 32, 195, 169>> }   \* "A \u{e9}": offset 3 is inside the e-acute

NumstatFieldSet ==
    { <<>>,                            \* a stray NUL
      <<45, 9, 45, 9, 97>>,            \* "-\t-\ta"
      <<49, 9, 49, 9, 97>>,            \* "1\t1\ta"
      <<45, 9, 45, 9>>,                \* "-\t-\t"
      <<45, 9, 45>>,                   \* "-\t-"
      <<49, 9, 45, 9, 53, 48, 37>>,    \* "1\t-\t50%"
      <<97>>,                          \* "a"  (a path, or a one-column lead)
      <<45, 9, 45, 9, 97, 9, 98>>,     \* "-\t-\ta\tb" (four columns)
      <<255>> }                        \* not UTF-8

StatusReports == Reports(StatusFieldSet, MaxStatusFields)

NumstatReports == Reports(NumstatFieldSet, MaxNumstatFields)

\* The numstat reports tried with every status report: none, a binary a,
\* a textual a, a rename lead with its two paths missing, undecodable.
NumstatSamples ==
    { <<>>,
      <<45, 9, 45, 9, 97, 0>>,
      <<49, 9, 49, 9, 97, 0>>,
      <<45, 9, 45, 9, 0>>,
      <<255, 0>> }

\* The status reports tried with every numstat report.
StatusSamples ==
    { <<>>,
      <<0>>,
      <<65, 32, 32, 97, 0>>,
      <<82, 32, 32, 97, 0, 98, 0, 68, 32, 32, 97, 0>> }

-----------------------------------------------------------------------------
(* The call.                                                               *)

\* The other components at rest, while one of them runs.
SummaryIdle ==
    /\ status_check_output_bytes = <<>>
    /\ numstat_output_bytes = <<>>
    /\ pc = "idle"
    /\ fields_iter = <<>>
    /\ binary_map = EmptyMap
    /\ status_fields_iter = <<>>
    /\ summary = DefaultSummary
    /\ result = NoResult

DiffIdle ==
    /\ raw_diff = <<>>
    /\ lines_iter = <<>>
    /\ processed_lines = <<>>
    /\ annotated = <<>>
    /\ diff_pc = "idle"
    /\ diff_pass = 0

AiIdle ==
    /\ api_response_candidates = <<>>
    /\ max_suggestions_to_return = 0
    /\ suggestions = <<>>
    /\ ai_cursor = [ci |-> 0, pi |-> 0, lines |-> <<>>]
    /\ ai_pc = "idle"
    /\ ai_result = NoResult

RepoIdle ==
    /\ repo_files = <<>>
    /\ repo_commits = <<>>
    /\ git_invocations = <<>>
    /\ call = [seq |-> 0, fn |-> "idle", message |-> <<>>]
    /\ call_result = NoResult

MainIdle ==
    /\ args = [interactive |-> FALSE, amend |-> FALSE]
    /\ main_pc = "idle"
    /\ main_calls = <<>>
    /\ previous_commit_msg = <<>>
    /\ preprocessed_diff_text = <<>>
    /\ changes_summary = DefaultSummary
    /\ suggestions_result = NoResult
    /\ prompt_result = NoResult
    /\ loop_result = NoResult
    /\ main_result = NoResult

\* One added binary file a, one modified binary file b, one deleted text
\* file c and one text file renamed from d to e, staged together.
MixedStatus ==
    <<65, 32, 32, 97, 0>> \o <<77, 32, 32, 98, 0>> \o <<68, 32, 32, 99, 0>>
    \o <<82, 32, 32, 101, 0, 100, 0>>

\* "-\t-\ta", "-\t-\tb", "0\t1\tc", "0\t0\t" d e
MixedNumstat ==
    <<45, 9, 45, 9, 97, 0>> \o <<45, 9, 45, 9, 98, 0>> \o <<48, 9, 49, 9, 99, 0>>
    \o <<48, 9, 48, 9, 0, 100, 0, 101, 0>>

Init ==
    /\ \E input \in (StatusReports \X NumstatSamples)
                       \cup (StatusSamples \X NumstatReports)
                       \cup {<<MixedStatus, MixedNumstat>>} :
           /\ status_check_output_bytes = input[1]
           /\ numstat_output_bytes = input[2]
    /\ DiffIdle /\ AiIdle /\ RepoIdle /\ MainIdle
    /\ pc = "call"
    /\ fields_iter = <<>>
    /\ binary_map = EmptyMap
    /\ status_fields_iter = <<>>
    /\ summary = DefaultSummary
    /\ result = NoResult

\* The status report is empty or all NULs: Ok(default), numstat never read.
ReturnEmptyStatus ==
    /\ UNCHANGED <<diffVars, aiVars, repoVars, mainVars>>
    /\ pc = "call"
    /\ EmptyOrAllNul(status_check_output_bytes)
    /\ pc' = "returned"
    /\ result' = Ok(summary)
    /\ UNCHANGED <<status_check_output_bytes, numstat_output_bytes, fields_iter,
                   binary_map, status_fields_iter, summary>>

\* get_binary_status_map is entered and returns its empty map at once.
StatusFields == FilterNonEmpty(Split(status_check_output_bytes, NUL))

ReturnEmptyMap ==
    /\ UNCHANGED <<diffVars, aiVars, repoVars, mainVars>>
    /\ pc = "call"
    /\ ~EmptyOrAllNul(status_check_output_bytes)
    /\ EmptyOrAllNul(numstat_output_bytes)
    /\ pc' = "status"
    /\ binary_map' = EmptyMap
    /\ status_fields_iter' = StatusFields
    /\ UNCHANGED <<status_check_output_bytes, numstat_output_bytes, fields_iter,
                   summary, result>>

\* get_binary_status_map is entered and starts to read fields.
EnterNumstatLoop ==
    /\ UNCHANGED <<diffVars, aiVars, repoVars, mainVars>>
    /\ pc = "call"
    /\ ~EmptyOrAllNul(status_check_output_bytes)
    /\ ~EmptyOrAllNul(numstat_output_bytes)
    /\ pc' = "numstat"
    /\ binary_map' = EmptyMap
    /\ fields_iter' = FilterNonEmpty(Split(numstat_output_bytes, NUL))
    /\ UNCHANGED <<status_check_output_bytes, numstat_output_bytes,
                   status_fields_iter, summary, result>>

\* One numstat record; an error leaves both functions through `?`.
NumstatRecord ==
    /\ UNCHANGED <<diffVars, aiVars, repoVars, mainVars>>
    /\ pc = "numstat"
    /\ fields_iter # <<>>
    /\ LET step == NumstatStep(fields_iter, binary_map)
       IN  /\ fields_iter' = step.fields
           /\ binary_map' = step.map
           /\ IF step.err # <<>>
              THEN /\ pc' = "returned"
                   /\ result' = Err(<<Ctx("Failed to get binary status map for staged files",
                                          <<>>)>> \o step.err)
              ELSE /\ pc' = "numstat"
                   /\ UNCHANGED result
    /\ UNCHANGED <<status_check_output_bytes, numstat_output_bytes,
                   status_fields_iter, summary>>

\* The numstat fields are used up: Ok(binary_map), the status loop starts.
NumstatDone ==
    /\ UNCHANGED <<diffVars, aiVars, repoVars, mainVars>>
    /\ pc = "numstat"
    /\ fields_iter = <<>>
    /\ pc' = "status"
    /\ status_fields_iter' = StatusFields
    /\ UNCHANGED <<status_check_output_bytes, numstat_output_bytes, fields_iter,
                   binary_map, summary, result>>

\* One status record.
StatusRecord ==
    /\ UNCHANGED <<diffVars, aiVars, repoVars, mainVars>>
    /\ pc = "status"
    /\ status_fields_iter # <<>>
    /\ LET step == StatusStep(status_fields_iter, binary_map, summary)
       IN  /\ status_fields_iter' = step.fields
           /\ summary' = step.summary
           /\ pc' = CASE step.outcome = "continue" -> "status"
                      [] step.outcome = "err" -> "returned"
                      [] step.outcome = "panic" -> "panicked"
           /\ result' = IF step.outcome = "err" THEN Err(step.err) ELSE result
    /\ UNCHANGED <<status_check_output_bytes, numstat_output_bytes, fields_iter,
                   binary_map>>

\* The status fields are used up: both lists are sorted, Ok(summary).
SortedSummary(summ) ==
    [binary_file_changes |-> SortStrings(summ.binary_file_changes),
     structure_changes |-> SortStrings(summ.structure_changes)]

ReturnSummary ==
    /\ UNCHANGED <<diffVars, aiVars, repoVars, mainVars>>
    /\ pc = "status"
    /\ status_fields_iter = <<>>
    /\ pc' = "returned"
    /\ summary' = SortedSummary(summary)
    /\ result' = Ok(summary')
    /\ UNCHANGED <<status_check_output_bytes, numstat_output_bytes, fields_iter,
                   binary_map, status_fields_iter>>

Next ==
    \/ ReturnEmptyStatus
    \/ ReturnEmptyMap
    \/ EnterNumstatLoop
    \/ NumstatRecord
    \/ NumstatDone
    \/ StatusRecord
    \/ ReturnSummary

Spec == Init /\ [][Next]_vars

TypeOK ==
    /\ pc \in {"idle", "call", "numstat", "status", "returned", "panicked"}
    /\ result.tag \in {"None", "Ok", "Err"}
    /\ (pc = "returned") = (result.tag # "None")

-----------------------------------------------------------------------------
(* Vocabulary of the properties.                                           *)

Range(seq) == { seq[i] : i \in 1..Len(seq) }

Count(seq, e) == Cardinality({ i \in 1..Len(seq) : seq[i] = e })

\* The status loop is about to read a lead.
AtLead == pc = "status" /\ status_fields_iter # <<>>

Lead == status_fields_iter[1]

\* The lead is text that starts with two one-byte status codes and a
\* one-byte separator, the first code being c.
RecordWithCode(c) ==
    /\ AtLead
    /\ IsUtf8(Lead)
    /\ Len(Lead) >= 3
    /\ Lead[1] = c /\ Lead[2] < 128 /\ Lead[3] < 128

\* The path of such a lead: everything from byte offset 3.
PathOf(l) == SubSeq(l, 4, Len(l))

\* The field after the lead, where an R/C record keeps its old path.
HasNextField == Len(status_fields_iter) >= 2

NextField == status_fields_iter[2]

FlaggedBinary(path) == path \in DOMAIN binary_map /\ binary_map[path] = TRUE

\* The error chain has a context with this message whose argument is arg.
ErrNames(res, msg, arg) ==
    /\ res.tag = "Err"
    /\ \E i \in 1..Len(res.chain) : res.chain[i].msg = msg /\ res.chain[i].arg = arg

-----------------------------------------------------------------------------
\* C1: when the lead of an R or C record is the last field of the status
\* report (its old path is missing), the call returns an error that names
\* the record's status codes, and no summary.
C1_TruncatedRenameIsError ==
    [][ (RecordWithCode(82) \/ RecordWithCode(67)) /\ ~HasNextField
        => /\ pc' = "returned"
           /\ result'.tag = "Err"
           /\ \E i \in 1..Len(result'.chain) :
                  result'.chain[i].arg[1] = SubSeq(Lead, 1, 2) ]_vars

\* C2: an R record with old path o and new path n, both non-empty, appends
\* exactly "renamed: o to n" to structure_changes and appends "renamed
\* binary file: o to n" to binary_file_changes iff the map flags n; with an
\* empty (or missing) path the record changes neither list.
C2_RenameEntries ==
    [][ RecordWithCode(82) /\ (HasNextField => IsUtf8(NextField))
        => LET n == PathOf(Lead)
           IN  IF HasNextField /\ NextField # <<>> /\ n # <<>>
               THEN /\ summary'.structure_changes =
                           Append(summary.structure_changes, FmtRenamed(NextField, n))
                    /\ summary'.binary_file_changes =
                           IF FlaggedBinary(n)
                           THEN Append(summary.binary_file_changes,
                                       FmtRenamedBinary(NextField, n))
                           ELSE summary.binary_file_changes
               ELSE summary' = summary ]_vars

\* C2 witness: a binary rename of b to a has left one entry in each list.
C2_Witness ==
    /\ pc = "status"
    /\ summary.structure_changes = <<FmtRenamed(<<98>>, <<97>>)>>
    /\ summary.binary_file_changes = <<FmtRenamedBinary(<<98>>, <<97>>)>>

\* C3: a C record with old and new path both non-empty appends "copied: o
\* to n" to structure_changes and, if n is flagged binary, "copied binary
\* file to: n" to binary_file_changes; with an empty (or missing) old or new
\* path the record changes neither list.
C3_CopyEntries ==
    [][ RecordWithCode(67) /\ (HasNextField => IsUtf8(NextField))
        => LET n == PathOf(Lead)
           IN  IF HasNextField /\ NextField # <<>> /\ n # <<>>
               THEN /\ summary'.structure_changes =
                           Append(summary.structure_changes, FmtCopied(NextField, n))
                    /\ summary'.binary_file_changes =
                           IF FlaggedBinary(n)
                           THEN Append(summary.binary_file_changes, FmtCopiedBinary(n))
                           ELSE summary.binary_file_changes
               ELSE summary' = summary ]_vars

\* The call is over, by a return or by a panic.
CallOver == pc \in {"returned", "panicked"}

\* C4 as stated: once the call is over, a status report made of the single
\* record "D  p" has given the summary with structure_changes = ["deleted
\* file: p"] and no binary entry, whatever the numstat report was.
C4_DeletedWhateverNumstat ==
    \A p \in {<<>>, <<97>>} :
        CallOver /\ status_check_output_bytes = <<68, 32, 32>> \o p \o <<NUL>>
        => result = Ok([binary_file_changes |-> <<>>,
                        structure_changes |-> <<FmtDeleted(p)>>])

\* C4 amended: a D record for p that the status loop reads appends exactly
\* "deleted file: p" to structure_changes and leaves binary_file_changes
\* alone, whatever the map holds for p; and a numstat report on which
\* get_binary_status_map fails ends the call with that error before any
\* status record is read.
C4_DeletedEntry ==
    [][ /\ RecordWithCode(68)
           => /\ summary'.structure_changes =
                     Append(summary.structure_changes, FmtDeleted(PathOf(Lead)))
              /\ summary'.binary_file_changes = summary.binary_file_changes
              /\ pc' = "status"
        /\ pc = "numstat" /\ pc' = "returned"
           => /\ result'.tag = "Err"
              /\ result'.chain[1].msg =
                     "Failed to get binary status map for staged files"
              /\ summary' = DefaultSummary ]_vars

\* C4 witness: the deletion of a binary a has been recorded as a structure
\* change only.
C4_Witness ==
    /\ pc = "status"
    /\ FlaggedBinary(<<97>>)
    /\ summary.structure_changes = <<FmtDeleted(<<97>>)>>
    /\ summary.binary_file_changes = <<>>

\* C5: an A (resp. M) record for p appends "added binary file: p" (resp.
\* "modified binary file: p") to binary_file_changes iff the map holds p
\* with value true (an absent p counts as not binary), and never changes
\* structure_changes.
C5_AddedModifiedEntries ==
    [][ \A c \in {65, 77} :
          RecordWithCode(c)
          => LET p == PathOf(Lead)
                 desc == IF c = 65 THEN FmtAddedBinary(p) ELSE FmtModifiedBinary(p)
             IN  /\ summary'.structure_changes = summary.structure_changes
                 /\ summary'.binary_file_changes =
                        IF p \in DOMAIN binary_map /\ binary_map[p] = TRUE
                        THEN Append(summary.binary_file_changes, desc)
                        ELSE summary.binary_file_changes ]_vars

\* C5 witness: an added and a modified binary a have been returned.
C5_Witness ==
    /\ pc = "returned"
    /\ result = Ok([binary_file_changes |->
                        <<FmtAddedBinary(<<97>>), FmtModifiedBinary(<<97>>)>>,
                    structure_changes |-> <<>>])

\* C6: a T record for p always appends "type changed for: p" to
\* structure_changes, and appends "type changed to binary: p" to
\* binary_file_changes iff p is flagged binary.
C6_TypeChangeEntries ==
    [][ RecordWithCode(84)
        => LET p == PathOf(Lead)
           IN  /\ summary'.structure_changes =
                      Append(summary.structure_changes, FmtTypeChanged(p))
               /\ summary'.binary_file_changes =
                      IF FlaggedBinary(p)
                      THEN Append(summary.binary_file_changes, FmtTypeChangedBinary(p))
                      ELSE summary.binary_file_changes ]_vars

\* C6 witness: a type change of a binary a has left one entry in each list.
C6_Witness ==
    /\ pc = "status"
    /\ summary.structure_changes = <<FmtTypeChanged(<<97>>)>>
    /\ summary.binary_file_changes = <<FmtTypeChangedBinary(<<97>>)>>

\* C7: a record whose first status code is none of A, D, R, C, M, T changes
\* neither list, whatever its second code, does not end the call, and the
\* loop goes on with the field after it.
C7_OtherCodeIgnored ==
    [][ \A c \in (0..127) \ {65, 68, 82, 67, 77, 84} :
          RecordWithCode(c)
          => /\ summary' = summary
             /\ pc' = "status"
             /\ result' = result
             /\ status_fields_iter' = Tail(status_fields_iter) ]_vars

\* C7 witness: " M a" was read with a flagged binary and added nothing, and
\* the deletion after it was recorded.
C7_Witness ==
    /\ pc = "returned"
    /\ FlaggedBinary(<<97>>)
    /\ status_check_output_bytes = <<32, 77, 32, 97, 0, 68, 32, 32, 97, 0>>
    /\ result = Ok([binary_file_changes |-> <<>>,
                    structure_changes |-> <<FmtDeleted(<<97>>)>>])

\* C8: when the status report is empty or holds only NUL bytes, the call
\* returns Ok with both lists empty, whatever the numstat report is.
C8_EmptyStatusGivesDefault ==
    (pc # "call" /\ \A i \in 1..Len(status_check_output_bytes) :
                        status_check_output_bytes[i] = 0)
    => /\ pc = "returned"
       /\ result = Ok([binary_file_changes |-> <<>>, structure_changes |-> <<>>])

\* C8 witness: a status report of one NUL has returned, the numstat report
\* being a rename lead with its two paths missing.
C8_Witness ==
    /\ pc = "returned"
    /\ status_check_output_bytes = <<0>>
    /\ numstat_output_bytes = <<45, 9, 45, 0>>

IsAscending(seq) ==
    \A i, j \in 1..Len(seq) : i < j => ~BytesLess(seq[j], seq[i])

SameEntries(a, b) ==
    /\ Len(a) = Len(b)
    /\ \A e \in Range(a) \cup Range(b) : Count(a, e) = Count(b, e)

\* C9: on every Ok return both lists are in ascending byte order and hold
\* exactly the entries pushed while the records were read, each as many
\* times as it was pushed.
C9_SortedSameEntries ==
    [][ result.tag = "None" /\ result'.tag = "Ok"
        => /\ IsAscending(result'.value.binary_file_changes)
           /\ IsAscending(result'.value.structure_changes)
           /\ SameEntries(result'.value.binary_file_changes,
                          summary.binary_file_changes)
           /\ SameEntries(result'.value.structure_changes,
                          summary.structure_changes) ]_vars

\* C9 witness: a type change followed by two deletions of a was returned
\* with the two equal entries first.
C9_Witness ==
    /\ pc = "returned"
    /\ status_check_output_bytes =
           <<84, 32, 32, 97, 0, 68, 32, 32, 97, 0, 68, 32, 32, 97, 0>>
    /\ result.tag = "Ok"
    /\ result.value.structure_changes =
           <<FmtDeleted(<<97>>), FmtDeleted(<<97>>), FmtTypeChanged(<<97>>)>>

\* The numstat lead is text whose shape makes the record take two more
\* fields: two columns, or three with an empty or similarity third column.
TakesTwoPaths(lead) ==
    /\ IsUtf8(lead)
    /\ LET parts == Split(lead, TAB)
       IN  \/ Len(parts) = 2
           \/ Len(parts) = 3 /\ (parts[3] = <<>> \/ IsSimilarityScore(parts[3]))

\* C10: a status lead, the old-path field of an R/C record, a numstat lead
\* or a numstat new-path field that is not UTF-8 makes the call return an
\* error naming that field, and no summary.
C10_DecodeErrorAborts ==
    [][ /\ AtLead /\ ~IsUtf8(Lead)
           => /\ pc' = "returned"
              /\ ErrNames(result', "Failed to parse status entry lead", Lead)
        /\ (RecordWithCode(82) \/ RecordWithCode(67))
             /\ HasNextField /\ ~IsUtf8(NextField)
           => /\ pc' = "returned"
              /\ ErrNames(result', "Failed to parse old_path for status",
                          <<SubSeq(Lead, 1, 2), NextField>>)
        /\ pc = "numstat" /\ fields_iter # <<>> /\ ~IsUtf8(fields_iter[1])
           => /\ pc' = "returned"
              /\ ErrNames(result', "Non-UTF8 first_segment in numstat",
                          fields_iter[1])
        /\ pc = "numstat" /\ Len(fields_iter) >= 3
             /\ TakesTwoPaths(fields_iter[1]) /\ ~IsUtf8(fields_iter[3])
           => /\ pc' = "returned"
              /\ result'.tag = "Err"
              /\ \E i \in 1..Len(result'.chain) :
                     /\ result'.chain[i].msg = "Non-UTF8 new_path"
                     /\ result'.chain[i].arg[2] = fields_iter[3] ]_vars

\* C10 witness: the old path of a rename failed to decode after a deletion
\* had been recorded, and an error came back.
C10_Witness ==
    /\ pc = "returned"
    /\ summary.structure_changes = <<FmtDeleted(<<97>>)>>
    /\ ErrNames(result, "Failed to parse old_path for status",
                <<(<<82, 32>>), (<<255>>)>>)

\* a is b with one more element at the end.
OnePushed(a, b) == Len(a) = Len(b) + 1 /\ SubSeq(a, 1, Len(b)) = b

Pushed(a) == a[Len(a)]

\* C11: an entry enters binary_file_changes only from an A, M, R, C or T
\* record whose (new) path the map flags as binary, and is that record's
\* binary entry; an entry enters structure_changes only from a D, R, C or T
\* record; and the staged set "added binary a, modified binary b, deleted
\* text c, text d renamed to e" returns exactly the added and modified
\* entries in binary_file_changes and the deleted and renamed entries in
\* structure_changes.
C11_NoCrossContamination ==
    [][ /\ AtLead /\ summary'.binary_file_changes # summary.binary_file_changes
           => /\ \E c \in {65, 77, 82, 67, 84} : RecordWithCode(c)
              /\ FlaggedBinary(PathOf(Lead))
              /\ OnePushed(summary'.binary_file_changes, summary.binary_file_changes)
              /\ LET p == PathOf(Lead)
                     e == Pushed(summary'.binary_file_changes)
                 IN  CASE Lead[1] = 65 -> e = FmtAddedBinary(p)
                       [] Lead[1] = 77 -> e = FmtModifiedBinary(p)
                       [] Lead[1] = 82 -> e = FmtRenamedBinary(NextField, p)
                       [] Lead[1] = 67 -> e = FmtCopiedBinary(p)
                       [] Lead[1] = 84 -> e = FmtTypeChangedBinary(p)
        /\ AtLead /\ summary'.structure_changes # summary.structure_changes
           => /\ \E c \in {68, 82, 67, 84} : RecordWithCode(c)
              /\ OnePushed(summary'.structure_changes, summary.structure_changes)
              /\ LET p == PathOf(Lead)
                     e == Pushed(summary'.structure_changes)
                 IN  CASE Lead[1] = 68 -> e = FmtDeleted(p)
                       [] Lead[1] = 82 -> e = FmtRenamed(NextField, p)
                       [] Lead[1] = 67 -> e = FmtCopied(NextField, p)
                       [] Lead[1] = 84 -> e = FmtTypeChanged(p)
        /\ ~AtLead /\ pc' # "returned" => summary' = summary
        /\ /\ pc' = "returned" /\ pc # "returned"
           /\ status_check_output_bytes = MixedStatus
           /\ numstat_output_bytes = MixedNumstat
           => result' = Ok([binary_file_changes |->
                                <<FmtAddedBinary(<<97>>), FmtModifiedBinary(<<98>>)>>,
                            structure_changes |->
                                <<FmtDeleted(<<99>>), FmtRenamed(<<100>>, <<101>>)>>]) ]_vars

\* C11 witness: the mixed staged set has been classified and returned with
\* four entries.
C11_Witness ==
    /\ pc = "returned"
    /\ status_check_output_bytes = MixedStatus
    /\ result.tag = "Ok"
    /\ Len(result.value.binary_file_changes) = 2
    /\ Len(result.value.structure_changes) = 2

-----------------------------------------------------------------------------
(* preprocess_diff_for_ai (src/diff/mod.rs).                               *)

MaxDiffPieces == 4

LF == 10

CR == 13

\* s.starts_with(prefix)
StartsWith(s, prefix) ==
    Len(s) >= Len(prefix) /\ SubSeq(s, 1, Len(prefix)) = prefix

\* s.ends_with(suffix)
EndsWith(s, suffix) ==
    Len(s) >= Len(suffix) /\ SubSeq(s, Len(s) - Len(suffix) + 1, Len(s)) = suffix

\* str::lines(): the text is cut after every '\n'; a piece that ends in
\* '\n' loses it and then one '\r' before it; a last piece without '\n' is
\* kept as it is; nothing follows a final '\n'.
StripCr(piece) ==
    IF piece # <<>> /\ piece[Len(piece)] = CR
    THEN SubSeq(piece, 1, Len(piece) - 1) ELSE piece

StrLines(s) ==
    LET breaks == { i \in 1..Len(s) : s[i] = LF }
        n == Cardinality(breaks)
        Break(k) == IF k = 0 THEN 0
                    ELSE CHOOSE i \in breaks :
                             Cardinality({ j \in breaks : j < i }) = k - 1
        closed == [k \in 1..n |-> StripCr(SubSeq(s, Break(k - 1) + 1, Break(k) - 1))]
    IN  IF Break(n) = Len(s) THEN closed
        ELSE closed \o <<SubSeq(s, Break(n) + 1, Len(s))>>

\* The literal prefixes of lines 4-19, in the order they are tested.
HeaderPrefixes ==
    << <<43, 43, 43>>,                                        \* "+++"
       <<45, 45, 45>>,                                        \* "---"
       <<100, 105, 102, 102, 32, 45, 45, 103, 105, 116>>,     \* "diff --git"
       <<105, 110, 100, 101, 120>>,                           \* "index"
       <<111, 108, 100, 32, 109, 111, 100, 101>>,             \* "old mode"
       <<110, 101, 119, 32, 109, 111, 100, 101>>,             \* "new mode"
       <<100, 101, 108, 101, 116, 101, 100, 32, 102, 105, 108, 101, 32, 109,
         111, 100, 101>>,                                     \* "deleted file mode"
       <<110, 101, 119, 32, 102, 105, 108, 101, 32, 109, 111, 100, 101>>,
                                                              \* "new file mode"
       <<99, 111, 112, 121, 32, 102, 114, 111, 109>>,         \* "copy from"
       <<99, 111, 112, 121, 32, 116, 111>>,                   \* "copy to"
       <<114, 101, 110, 97, 109, 101, 32, 102, 114, 111, 109>>, \* "rename from"
       <<114, 101, 110, 97, 109, 101, 32, 116, 111>>,         \* "rename to"
       <<115, 105, 109, 105, 108, 97, 114, 105, 116, 121, 32, 105, 110, 100,
         101, 120>>,                                          \* "similarity index"
       <<100, 105, 115, 115, 105, 109, 105, 108, 97, 114, 105, 116, 121, 32,
         105, 110, 100, 101, 120>>,                           \* "dissimilarity index"
       <<66, 105, 110, 97, 114, 121, 32, 102, 105, 108, 101, 115>>, \* "Binary files"
       <<64, 64>> >>                                          \* "@@"

\* Mutant of IsHeaderLine: the "+++" and "---" tests are missing.
IsHeaderLine_NoFileMarks(line) ==
    \E i \in 3..Len(HeaderPrefixes) : StartsWith(line, HeaderPrefixes[i])

\* The condition of the first `if`.
IsHeaderLine(line) ==
    \E i \in 1..Len(HeaderPrefixes) : StartsWith(line, HeaderPrefixes[i])

\* "[ADDED_LINE]: "
AddedMarker == <<91, 65, 68, 68, 69, 68, 95, 76, 73, 78, 69, 93, 58, 32>>

\* "[REMOVED_LINE]: "
RemovedMarker == <<91, 82, 69, 77, 79, 86, 69, 68, 95, 76, 73, 78, 69, 93, 58, 32>>

\* Mutant of MarkedLine: the rest of the line loses its leading spaces.
RECURSIVE TrimLeadingSpaces(_)
TrimLeadingSpaces(t) ==
    IF t # <<>> /\ t[1] = 32 THEN TrimLeadingSpaces(Tail(t)) ELSE t

MarkedLine_Trimmed(marker, line) ==
    marker \o TrimLeadingSpaces(SubSeq(line, 2, Len(line)))

\* Mutant of MarkedLine: the sign stays in front of the marker.
MarkedLine_SignKept(marker, line) == <<line[1]>> \o marker \o Slice(line, 1, Len(line))

\* format!("[..]: {}", &line[1..])
MarkedLine(marker, line) == marker \o Slice(line, 1, Len(line))

\* The body of the `for` loop for one line: the line pushed, or a panic of
\* &line[1..] when offset 1 is not a character boundary.
AnnotateLine(line) ==
    IF IsHeaderLine(line) THEN [panic |-> FALSE, line |-> line]
    ELSE IF StartsWith(line, <<PLUS>>) THEN
        IF IsCharBoundary(line, 1)
        THEN [panic |-> FALSE, line |-> MarkedLine(AddedMarker, line)]
        ELSE [panic |-> TRUE, line |-> <<>>]
    ELSE IF StartsWith(line, <<DASH>>) THEN
        IF IsCharBoundary(line, 1)
        THEN [panic |-> FALSE, line |-> MarkedLine(RemovedMarker, line)]
        ELSE [panic |-> TRUE, line |-> <<>>]
    ELSE [panic |-> FALSE, line |-> line]

\* Mutant of PushLine: the line is put in front.
PushLine_Front(lines, line) == <<line>> \o lines

\* processed_lines.push(..)
PushLine(lines, line) == Append(lines, line)

\* Mutant of JoinWith: every line is closed by the separator.
RECURSIVE JoinWith_Terminated(_, _)
JoinWith_Terminated(strs, sep) ==
    IF strs = <<>> THEN <<>>
    ELSE strs[1] \o sep \o JoinWith_Terminated(Tail(strs), sep)

\* [String]::join(sep)
RECURSIVE JoinWith(_, _)
JoinWith(strs, sep) ==
    IF strs = <<>> THEN <<>>
    ELSE IF Len(strs) = 1 THEN strs[1]
    ELSE strs[1] \o sep \o JoinWith(Tail(strs), sep)

\* The diffs explored: every concatenation of up to MaxDiffPieces pieces ...
DiffPieceSet ==
    { <<43>>,          \* "+"
      <<45>>,          \* "-"
      <<64>>,          \* "@"
      <<32>>,          \* " "
      <<97>>,          \* "a"
      <<10>>,          \* "\n"
      <<13>>,          \* "\r"
      <<195, 169>> }   \* e-acute, two bytes

RECURSIVE Concat(_)
Concat(pieces) == IF pieces = <<>> THEN <<>> ELSE pieces[1] \o Concat(Tail(pieces))

DiffTexts ==
    { Concat(ps) : ps \in UNION { [1..k -> DiffPieceSet] : k \in 0..MaxDiffPieces } }

\* ... and, for each header prefix h, the three lines "h x", "+h", "-h",
\* and the line "+" followed by h without its first character.
DiffSamples ==
    { HeaderPrefixes[i] \o <<32, 120, 10, 43>> \o HeaderPrefixes[i]
          \o <<10, 45>> \o HeaderPrefixes[i] : i \in 1..Len(HeaderPrefixes) }
    \cup { <<43>> \o Tail(HeaderPrefixes[i]) \o <<10, 10>> : i \in 1..Len(HeaderPrefixes) }
    \cup { <<45, 32, 43, 97, 10, 43, 32, 45, 97>> }    \* "- +a\n+ -a"

DiffInit ==
    /\ SummaryIdle /\ AiIdle /\ RepoIdle /\ MainIdle
    /\ raw_diff \in DiffTexts \cup DiffSamples
    /\ lines_iter = <<>>
    /\ processed_lines = <<>>
    /\ annotated = <<>>
    /\ diff_pc = "call"
    /\ diff_pass = 1

\* let mut processed_lines = Vec::new(); raw_diff.lines()
DiffEnter ==
    /\ diff_pc = "call"
    /\ lines_iter' = StrLines(raw_diff)
    /\ processed_lines' = <<>>
    /\ diff_pc' = "loop"
    /\ UNCHANGED <<raw_diff, annotated, diff_pass>>
    /\ UNCHANGED <<summaryVars, aiVars, repoVars, mainVars>>

\* One pass of the `for` loop.
DiffLine ==
    /\ diff_pc = "loop"
    /\ lines_iter # <<>>
    /\ LET step == AnnotateLine(Head(lines_iter))
       IN  /\ lines_iter' = Tail(lines_iter)
           /\ processed_lines' = IF step.panic THEN processed_lines
                                 ELSE PushLine(processed_lines, step.line)
           /\ diff_pc' = IF step.panic THEN "panicked" ELSE "loop"
    /\ UNCHANGED <<raw_diff, annotated, diff_pass>>
    /\ UNCHANGED <<summaryVars, aiVars, repoVars, mainVars>>

\* processed_lines.join("\n")
DiffReturn ==
    /\ diff_pc = "loop"
    /\ lines_iter = <<>>
    /\ annotated' = JoinWith(processed_lines, <<LF>>)
    /\ diff_pc' = "returned"
    /\ UNCHANGED <<raw_diff, lines_iter, processed_lines, diff_pass>>
    /\ UNCHANGED <<summaryVars, aiVars, repoVars, mainVars>>

\* The function is applied to its own output.
DiffApplyAgain ==
    /\ diff_pc = "returned"
    /\ diff_pass = 1
    /\ raw_diff' = annotated
    /\ diff_pass' = 2
    /\ diff_pc' = "call"
    /\ lines_iter' = <<>>
    /\ processed_lines' = <<>>
    /\ annotated' = <<>>
    /\ UNCHANGED <<summaryVars, aiVars, repoVars, mainVars>>

DiffNext == DiffEnter \/ DiffLine \/ DiffReturn \/ DiffApplyAgain

DiffSpec == DiffInit /\ [][DiffNext]_vars

-----------------------------------------------------------------------------
(* process_api_response_candidates (src/ai/mod.rs): string helpers.         *)

\* The characters with the White_Space property, which str::trim removes,
\* in UTF-8: U+0009..U+000D, U+0020, U+0085, U+00A0, U+1680,
\* U+2000..U+200A, U+2028, U+2029, U+202F, U+205F, U+3000.
WhiteSpaceChars ==
    { <<9>>, <<10>>, <<11>>, <<12>>, <<13>>, <<32>>, <<194, 133>>, <<194,
      160>>, <<225, 154, 128>>, <<226, 128, 128>>, <<226, 128, 129>>, <<226,
      128, 130>>, <<226, 128, 131>>, <<226, 128, 132>>, <<226, 128, 133>>,
      <<226, 128, 134>>, <<226, 128, 135>>, <<226, 128, 136>>, <<226, 128,
      137>>, <<226, 128, 138>>, <<226, 128, 168>>, <<226, 128, 169>>, <<226,
      128, 175>>, <<226, 129, 159>>, <<227, 128, 128>> }

\* str::trim_start()
RECURSIVE TrimStart(_)
TrimStart(s) ==
    IF \E w \in WhiteSpaceChars : StartsWith(s, w)
    THEN LET w == CHOOSE w \in WhiteSpaceChars : StartsWith(s, w)
         IN  TrimStart(SubSeq(s, Len(w) + 1, Len(s)))
    ELSE s

\* str::trim_end()
RECURSIVE TrimEnd(_)
TrimEnd(s) ==
    IF \E w \in WhiteSpaceChars : EndsWith(s, w)
    THEN LET w == CHOOSE w \in WhiteSpaceChars : EndsWith(s, w)
         IN  TrimEnd(SubSeq(s, 1, Len(s) - Len(w)))
    ELSE s

\* str::trim()
Trim(s) == TrimEnd(TrimStart(s))

\* str::to_lowercase(): 'A'..'Z' become 'a'..'z'; U+212A (Kelvin sign)
\* becomes 'k' and U+0130 becomes 'i' followed by U+0307. The other
\* characters that have a lower case map to characters outside ASCII and
\* are left as they are: the result is only compared with ASCII text.
LowerByte(c) == IF c \in 65..90 THEN c + 32 ELSE c

RECURSIVE ToLowercase(_)
ToLowercase(s) ==
    LET special == { i \in 1..Len(s) :
                       \/ i + 2 <= Len(s) /\ SubSeq(s, i, i + 2) = <<226, 132, 170>>
                       \/ i + 1 <= Len(s) /\ SubSeq(s, i, i + 1) = <<196, 176>> }
    IN  IF special = {} THEN [i \in 1..Len(s) |-> LowerByte(s[i])]
        ELSE LET i == CHOOSE i \in special : \A j \in special : i <= j
                 before == [k \in 1..(i - 1) |-> LowerByte(s[k])]
             IN  IF s[i] = 226
                 THEN before \o <<107>> \o ToLowercase(SubSeq(s, i + 3, Len(s)))
                 ELSE before \o <<105, 204, 135>> \o ToLowercase(SubSeq(s, i + 2, Len(s)))

\* str::find(pat): the byte offset of the first match, or -1 for None.
Find(s, pat) ==
    LET hits == { i \in 0..(Len(s) - Len(pat)) : SubSeq(s, i + 1, i + Len(pat)) = pat }
    IN  IF hits = {} THEN -1 ELSE CHOOSE i \in hits : \A j \in hits : i <= j

\* str::contains(pat)
Contains(s, pat) == Find(s, pat) # -1

\* s.strip_prefix(p) as an Option: <<>> for None, <<rest>> for Some(rest).
StripPrefix(s, p) ==
    IF StartsWith(s, p) THEN <<SubSeq(s, Len(p) + 1, Len(s))>> ELSE <<>>

\* s.strip_suffix(p) as an Option.
StripSuffix(s, p) ==
    IF EndsWith(s, p) THEN <<SubSeq(s, 1, Len(s) - Len(p))>> ELSE <<>>

\* Option::unwrap_or
UnwrapOr(opt, default) == IF opt = <<>> THEN default ELSE opt[1]

\* "```"
Fence == <<96, 96, 96>>

\* Lines 71-91: the text block trimmed and without its code fence.
BlockText(text_block) ==
    LET processed_text == Trim(text_block)
        open == Fence \o <<LF>>
        close == <<LF>> \o Fence
    IN  IF StartsWith(processed_text, open) /\ EndsWith(processed_text, close)
        THEN Trim(UnwrapOr(StripSuffix(UnwrapOr(StripPrefix(processed_text, open),
                                                processed_text), close),
                           processed_text))
        ELSE IF StartsWith(processed_text, Fence) /\ EndsWith(processed_text, Fence)
        THEN Trim(UnwrapOr(StripSuffix(UnwrapOr(StripPrefix(processed_text, Fence),
                                                processed_text), Fence),
                           processed_text))
        ELSE processed_text

\* .chars().all(|c| c.is_ascii_digit())
AllAsciiDigits(s) == \A i \in 1..Len(s) : s[i] \in 48..57

\* Lines 100-133: the list marker, or the text up to the first ": " of a
\* line that begins "however,", is cut off.
StripListMarker(current_suggestion) ==
    LET dot_pos == Find(current_suggestion, <<46, 32>>)
        colon_pos == Find(current_suggestion, <<58, 32>>)
    IN  IF dot_pos # -1 THEN
            IF dot_pos > 0 /\ AllAsciiDigits(Slice(current_suggestion, 0, dot_pos))
            THEN IF Len(current_suggestion) > dot_pos + 2
                 THEN TrimStart(Slice(current_suggestion, dot_pos + 2,
                                      Len(current_suggestion)))
                 ELSE <<>>
            ELSE current_suggestion
        ELSE IF \/ StartsWith(current_suggestion, <<45, 32>>)
                \/ StartsWith(current_suggestion, <<42, 32>>)
        THEN IF Len(current_suggestion) > 2
             THEN TrimStart(Slice(current_suggestion, 2, Len(current_suggestion)))
             ELSE <<>>
        ELSE IF StartsWith(ToLowercase(current_suggestion), <<104, 111, 119, 101, 118, 101, 114, 44>>)
        THEN IF colon_pos # -1 /\ Len(current_suggestion) > colon_pos + 2
             THEN Trim(Slice(current_suggestion, colon_pos + 2, Len(current_suggestion)))
             ELSE current_suggestion
        ELSE current_suggestion

\* The beginnings of lines 142-148.
PreambleStarts ==
    { <<104, 101, 114, 101, 32, 97, 114, 101>>,   \* "here are"
      <<115, 117, 114, 101, 44>>,   \* "sure,"
      <<111, 107, 97, 121, 44>>,   \* "okay,"
      <<114, 101, 115, 112, 111, 110, 115, 101, 58>>,   \* "response:"
      <<103, 105, 118, 101, 110, 32, 116, 104, 101>>,   \* "given the"
      <<116, 104, 101, 32, 97, 105, 32, 115, 117, 103, 103, 101, 115, 116, 115>>,   \* "the ai suggests"
      <<105, 32, 115, 117, 103, 103, 101, 115, 116>>   \* "i suggest"
    }

\* The phrases of lines 149-151.
PreamblePhrases ==
    { <<112, 111, 115, 115, 105, 98, 108, 101, 32, 99, 111, 109, 109, 105,
      116, 32, 109, 101, 115, 115, 97, 103, 101>>,
      \* "possible commit message"
      <<99, 111, 109, 109, 105, 116, 32, 109, 101, 115, 115, 97, 103, 101,
      32, 98, 97, 115, 101, 100, 32, 111, 110, 32, 116, 104, 101, 32, 112,
      114, 111, 118, 105, 100, 101, 100, 32, 100, 105, 102, 102>> }
      \* "commit message based on the provided diff"

\* The condition of lines 141-152.
IsFiltered(current_suggestion) ==
    LET lower_line == ToLowercase(current_suggestion)
    IN  \/ \E p \in PreambleStarts : StartsWith(lower_line, p)
        \/ \E p \in PreamblePhrases : Contains(lower_line, p)
        \/ ~Contains(current_suggestion, <<58>>)

MaxSuggestionLen == 200

\* The body of the loop over the lines of a text block: what is pushed for
\* one line, <<>> when the line is skipped.
SuggestionOfLine(line_str) ==
    LET trimmed == Trim(line_str)
        current_suggestion == Trim(StripListMarker(trimmed))
    IN  IF trimmed = <<>> \/ trimmed = Fence THEN <<>>
        ELSE IF current_suggestion = <<>> THEN <<>>
        ELSE IF IsFiltered(current_suggestion) THEN <<>>
        ELSE IF /\ Len(current_suggestion) > MaxSuggestionLen
                /\ ~Contains(current_suggestion, <<LF>>) THEN <<>>
        ELSE <<current_suggestion>>

\* Mutant of Truncate: the last n are kept.
Truncate_KeepLast(v, n) == IF Len(v) > n THEN SubSeq(v, Len(v) - n + 1, Len(v)) ELSE v

\* Lines 173-175: Vec::truncate when the vector is longer than n.
Truncate(v, n) == IF Len(v) > n THEN SubSeq(v, 1, n) ELSE v


\* 'feat: a\nfix: b'
TextTwo == <<102, 101, 97, 116, 58, 32, 97, 10, 102, 105, 120, 58, 32, 98>>

\* 'docs: c'
TextOne == <<100, 111, 99, 115, 58, 32, 99>>

\* 'Here is some advice'
TextNone == <<72, 101, 114, 101, 32, 105, 115, 32, 115, 111, 109, 101, 32, 97, 100,
    118, 105, 99, 101>>

\* "feat: " followed by 'a's, n bytes in all.
LongLine(n) == <<102, 101, 97, 116, 58, 32>> \o [i \in 1..(n - 6) |-> 97]

\* Text blocks that take every branch of the line loop.
AiTextSamples ==
    { <<>>,   \* ''
      <<32, 32, 10, 32>>,   \* '  \n '
      <<96, 96, 96, 10, 102, 101, 97, 116, 58, 32, 97, 10, 96, 96, 96>>,   \* '```\nfeat: a\n```'
      <<96, 96, 96, 102, 101, 97, 116, 58, 32, 97, 96, 96, 96>>,   \* '```feat: a```'
      <<96, 96, 96, 10, 96, 96, 96>>,   \* '```\n```'
      <<96, 96, 96>>,   \* '```'
      <<96, 96, 96, 116, 101, 120, 116, 10, 102, 105, 120, 58, 32, 98, 10,
      96, 96, 96>>,   \* '```text\nfix: b\n```'
      <<49, 46, 32, 102, 101, 97, 116, 58, 32, 97, 10, 50, 46, 32, 32, 102,
      105, 120, 58, 32, 98, 10, 45, 32, 100, 111, 99, 115, 58, 32, 99, 10,
      42, 32, 99, 104, 111, 114, 101, 58, 32, 100>>,   \* '1. feat: a\n2.  fix: b\n- docs: c\n* chore: d'
      <<45, 32, 97, 46, 32, 98, 58, 32, 99>>,   \* '- a. b: c'
      <<97, 46, 32, 98, 58, 32, 99>>,   \* 'a. b: c'
      <<49, 50, 46, 32>>,   \* '12. '
      <<45, 32>>,   \* '- '
      <<72, 111, 119, 101, 118, 101, 114, 44, 32, 116, 114, 121, 58, 32,
      102, 101, 97, 116, 58, 32, 97>>,   \* 'However, try: feat: a'
      <<104, 111, 119, 101, 118, 101, 114, 44, 32, 120>>,   \* 'however, x'
      <<72, 79, 87, 69, 86, 69, 82, 44, 32, 97, 58, 32>>,   \* 'HOWEVER, a: '
      <<83, 117, 114, 101, 44, 32, 104, 101, 114, 101, 58, 32, 120>>,   \* 'Sure, here: x'
      <<72, 101, 114, 101, 32, 97, 114, 101, 58, 32, 120>>,   \* 'Here are: x'
      <<79, 226, 132, 170, 97, 121, 44, 32, 120, 58, 32, 121>>,   \* 'O\u212aay, x: y'
      <<82, 101, 115, 112, 111, 110, 115, 101, 58, 32, 120>>,   \* 'Response: x'
      <<71, 105, 118, 101, 110, 32, 116, 104, 101, 32, 120, 58, 32, 121>>,   \* 'Given the x: y'
      <<84, 104, 101, 32, 65, 73, 32, 115, 117, 103, 103, 101, 115, 116,
      115, 58, 32, 120>>,   \* 'The AI suggests: x'
      <<73, 32, 115, 117, 103, 103, 101, 115, 116, 58, 32, 120>>,   \* 'I suggest: x'
      <<196, 176, 32, 115, 117, 103, 103, 101, 115, 116, 58, 32, 120>>,   \* '\u0130 suggest: x'
      <<97, 32, 80, 111, 115, 115, 105, 98, 108, 101, 32, 67, 111, 109, 109,
      105, 116, 32, 77, 101, 115, 115, 97, 103, 101, 58, 32, 120>>,   \* 'a Possible Commit Message: x'
      <<99, 111, 109, 109, 105, 116, 32, 109, 101, 115, 115, 97, 103, 101,
      32, 98, 97, 115, 101, 100, 32, 111, 110, 32, 116, 104, 101, 32, 112,
      114, 111, 118, 105, 100, 101, 100, 32, 100, 105, 102, 102, 58, 32,
      120>>,   \* 'commit message based on the provided diff: x'
      <<58>>,   \* ':'
      <<32, 102, 101, 97, 116, 58, 32, 97, 32, 13, 10, 13, 10, 194, 160,
      102, 105, 120, 58, 32, 98, 227, 128, 128>>,   \* ' feat: a \r\n\r\n\xa0fix: b\u3000'
      <<72, 101, 114, 101, 32, 97, 114, 101, 32, 115, 111, 109, 101, 32,
      115, 117, 103, 103, 101, 115, 116, 105, 111, 110, 115, 58, 10, 49, 46,
      32, 102, 101, 97, 116, 58, 32, 70, 105, 114, 115, 116, 32, 105, 116,
      101, 109, 10, 45, 32, 102, 105, 120, 58, 32, 83, 101, 99, 111, 110,
      100, 32, 105, 116, 101, 109, 10, 42, 32, 99, 104, 111, 114, 101, 58,
      32, 84, 104, 105, 114, 100, 32, 105, 116, 101, 109, 10, 32, 32, 100,
      111, 99, 115, 58, 32, 70, 111, 117, 114, 116, 104, 32, 105, 116, 101,
      109, 32, 119, 105, 116, 104, 32, 115, 112, 97, 99, 101>>,   \* 'Here are some suggestions:\n1. feat: First item\n- fix: Second
      \* item\n* chore: Third item\n  docs: Fourth item with space'
      <<96, 96, 96, 10, 102, 101, 97, 116, 58, 32, 86, 97, 108, 105, 100,
      32, 111, 110, 101, 10, 10, 96, 96, 96, 10, 102, 105, 120, 58, 32, 86,
      97, 108, 105, 100, 32, 116, 119, 111, 10, 32, 96, 96, 96, 32, 10, 99,
      104, 111, 114, 101, 58, 32, 86, 97, 108, 105, 100, 32, 116, 104, 114,
      101, 101>>,   \* '```\nfeat: Valid one\n\n```\nfix: Valid two\n ``` \nchore: Valid
      \* three'
      <<71, 105, 118, 101, 110, 32, 116, 104, 101, 32, 108, 97, 99, 107, 32,
      111, 102, 32, 115, 112, 101, 99, 105, 102, 105, 99, 32, 99, 111, 100,
      101, 32, 99, 104, 97, 110, 103, 101, 115, 44, 32, 105, 116, 39, 115,
      32, 105, 109, 112, 111, 115, 115, 105, 98, 108, 101, 32, 116, 111, 32,
      112, 114, 111, 118, 105, 100, 101, 32, 97, 32, 109, 111, 114, 101, 32,
      116, 97, 114, 103, 101, 116, 101, 100, 32, 99, 111, 109, 109, 105,
      116, 32, 109, 101, 115, 115, 97, 103, 101, 46, 10, 72, 111, 119, 101,
      118, 101, 114, 44, 32, 104, 101, 114, 101, 32, 105, 115, 32, 97, 32,
      103, 101, 110, 101, 114, 105, 99, 32, 111, 110, 101, 58, 32, 99, 104,
      111, 114, 101, 58, 32, 85, 112, 100, 97, 116, 101, 32, 100, 111, 99,
      117, 109, 101, 110, 116, 97, 116, 105, 111, 110>>,   \* "Given the lack of specific code changes, it's impossible to
      \* provide a more targeted commit message.\nHowever, here is a
      \* generic one: chore: Update documentation"
      LongLine(MaxSuggestionLen),   \* "feat: aa..a", 200 bytes
      LongLine(MaxSuggestionLen + 1),   \* "feat: aa..a", 201 bytes
      <<116, 101, 115, 116, 10, 102, 105, 120, 58, 32, 98, 10, 110, 111, 32,
      99, 111, 108, 111, 110, 10, 102, 101, 97, 116, 58, 32, 97>>   \* 'test\nfix: b\nno colon\nfeat: a'
    }


\* Option values: <<>> is None, <<x>> is Some(x).
None == <<>>

Some(x) == <<x>>

\* ModelPart, ModelContent, Candidate
Part(text) == [text |-> text]

Content(parts) == [parts |-> parts]

Candidate(content) == [content |-> content]

\* A candidate whose content has the given text blocks as parts.
CandidateOf(texts) ==
    Candidate(Some(Content(Some([i \in 1..Len(texts) |-> Part(texts[i])]))))

MaxCandidates == 2

MaxReturn == 3

\* The candidates explored: without content, without parts, with no part,
\* with a part without text, and with one to three text blocks.
CandidateSamples ==
    { Candidate(None),
      Candidate(Some(Content(None))),
      CandidateOf(<<>>),
      CandidateOf(<<None>>),
      CandidateOf(<<Some(TextOne)>>),
      CandidateOf(<<Some(TextTwo)>>),
      CandidateOf(<<Some(TextNone)>>),
      CandidateOf(<<Some(TextOne), Some(TextTwo)>>),
      CandidateOf(<<Some(TextTwo), None, Some(TextNone), Some(TextOne)>>) }

\* The responses explored: no candidate list, every list of up to
\* MaxCandidates of the candidates above, and one candidate with one of
\* the text samples.
ApiResponses ==
    {None}
    \cup { Some(v) : v \in UNION { [1..k -> CandidateSamples] : k \in 0..MaxCandidates } }
    \cup { Some(<<CandidateOf(<<Some(t)>>)>>) : t \in AiTextSamples }

AiInit ==
    /\ SummaryIdle /\ DiffIdle /\ RepoIdle /\ MainIdle
    /\ api_response_candidates \in ApiResponses
    /\ max_suggestions_to_return \in 0..MaxReturn
    /\ suggestions = <<>>
    /\ ai_cursor = [ci |-> 0, pi |-> 0, lines |-> <<>>]
    /\ ai_pc = "call"
    /\ ai_result = NoResult

\* if let Some(candidates_vec) = api_response_candidates { for candidate in .. }
CandidatesVec == UnwrapOr(api_response_candidates, <<>>)

\* if let Some(content) = candidate.content { if let Some(parts) = content.parts { for part in parts
PartsOf(candidate) ==
    IF candidate.content = None THEN <<>>
    ELSE UnwrapOr(candidate.content[1].parts, <<>>)

\* let mut suggestions = Vec::new();
AiEnter ==
    /\ ai_pc = "call"
    /\ suggestions' = <<>>
    /\ ai_cursor' = [ci |-> 1, pi |-> 1, lines |-> <<>>]
    /\ ai_pc' = "loop"
    /\ UNCHANGED <<api_response_candidates, max_suggestions_to_return, ai_result>>
    /\ UNCHANGED <<summaryVars, diffVars, repoVars, mainVars>>

\* The next part of the candidate: its text block, if it has one, is
\* trimmed, unfenced and cut into lines.
AiPart ==
    /\ ai_pc = "loop"
    /\ ai_cursor.lines = <<>>
    /\ ai_cursor.ci <= Len(CandidatesVec)
    /\ ai_cursor.pi <= Len(PartsOf(CandidatesVec[ai_cursor.ci]))
    /\ LET part == PartsOf(CandidatesVec[ai_cursor.ci])[ai_cursor.pi]
       IN  ai_cursor' = [ci |-> ai_cursor.ci,
                         pi |-> ai_cursor.pi + 1,
                         lines |-> IF part.text = None THEN <<>>
                                   ELSE StrLines(BlockText(part.text[1]))]
    /\ UNCHANGED <<api_response_candidates, max_suggestions_to_return, suggestions,
                   ai_pc, ai_result>>
    /\ UNCHANGED <<summaryVars, diffVars, repoVars, mainVars>>

\* One pass of the loop over the lines of the text block.
AiLine ==
    /\ ai_pc = "loop"
    /\ ai_cursor.lines # <<>>
    /\ suggestions' = suggestions \o SuggestionOfLine(Head(ai_cursor.lines))
    /\ ai_cursor' = [ai_cursor EXCEPT !.lines = Tail(@)]
    /\ UNCHANGED <<api_response_candidates, max_suggestions_to_return, ai_pc, ai_result>>
    /\ UNCHANGED <<summaryVars, diffVars, repoVars, mainVars>>

\* The candidate has no (more) parts: on to the next candidate.
AiCandidate ==
    /\ ai_pc = "loop"
    /\ ai_cursor.lines = <<>>
    /\ ai_cursor.ci <= Len(CandidatesVec)
    /\ ai_cursor.pi > Len(PartsOf(CandidatesVec[ai_cursor.ci]))
    /\ ai_cursor' = [ci |-> ai_cursor.ci + 1, pi |-> 1, lines |-> <<>>]
    /\ UNCHANGED <<api_response_candidates, max_suggestions_to_return, suggestions,
                   ai_pc, ai_result>>
    /\ UNCHANGED <<summaryVars, diffVars, repoVars, mainVars>>

NoSuggestions ==
    "No valid commit suggestions derived from AI response after filtering. The AI might have returned explanatory text instead of commit messages."

\* Lines 173-182: truncate, then bail or Ok.
AiFinish ==
    /\ ai_pc = "loop"
    /\ ai_cursor.lines = <<>>
    /\ ai_cursor.ci > Len(CandidatesVec)
    /\ suggestions' = Truncate(suggestions, max_suggestions_to_return)
    /\ ai_result' = IF suggestions' = <<>>
                    THEN Err(<<Ctx(NoSuggestions, <<>>)>>)
                    ELSE Ok(suggestions')
    /\ ai_pc' = "returned"
    /\ UNCHANGED <<api_response_candidates, max_suggestions_to_return, ai_cursor>>
    /\ UNCHANGED <<summaryVars, diffVars, repoVars, mainVars>>

AiNext == AiEnter \/ AiPart \/ AiLine \/ AiCandidate \/ AiFinish

AiSpec == AiInit /\ [][AiNext]_vars

-----------------------------------------------------------------------------
(* has_staged_files, commit_staged_files, amend_commit (src/git/mod.rs),   *)
(* and the repository they run git in.                                     *)

MaxRepoFiles == 2

MaxCalls == 2

\* The tracked paths of the repository: "a", "b", ...
RepoPath(i) == <<96 + i>>

\* A path of the repository: whether HEAD has it, whether the index
\* differs from HEAD for it (it is staged), whether the work tree differs
\* from the index for it.
CleanFile(in_head) == [head |-> in_head, staged |-> FALSE, dirty |-> FALSE]

\* Messages that are empty or only whitespace ...
BlankMessages ==
    { <<>>, <<32, 9, 10>>, <<194, 160>> }

\* ... and messages that are not.
TextMessages == { TextOne, <<32, 120, 10>> }

\* One line of `git status --porcelain --untracked-files=no` for a path:
\* "XY path\n", nothing when neither the index nor the work tree changed it.
PorcelainLine(i, f) ==
    IF ~f.staged /\ ~f.dirty THEN <<>>
    ELSE << IF ~f.staged THEN 32 ELSE IF f.head THEN 77 ELSE 65,
            IF f.dirty THEN 77 ELSE 32,
            32 >> \o RepoPath(i) \o <<LF>>

\* The stdout of `git status --porcelain --untracked-files=no`.
RECURSIVE PorcelainFrom(_, _)
PorcelainFrom(files, i) ==
    IF i > Len(files) THEN <<>>
    ELSE PorcelainLine(i, files[i]) \o PorcelainFrom(files, i + 1)

GitStatusPorcelain(files) == PorcelainFrom(files, 1)

\* Mutant of IsEmptyMessage: the message is not trimmed.
IsEmptyMessage_NoTrim(message) == message = <<>>

\* message.trim().is_empty()
IsEmptyMessage(message) == Trim(message) = <<>>

\* bail! of execute_git_command under the context the caller adds.
GitFailed(context, argv) == Err(<<Ctx(context, <<>>), Ctx("Git command failed", argv)>>)

RepoInit ==
    /\ SummaryIdle /\ DiffIdle /\ AiIdle /\ MainIdle
    /\ repo_files \in [1..MaxRepoFiles -> {CleanFile(TRUE), CleanFile(FALSE)}]
    /\ repo_commits = IF \E i \in 1..MaxRepoFiles : repo_files[i].head
                      THEN <<TextOne>> ELSE <<>>
    /\ git_invocations = <<>>
    /\ call = [seq |-> 0, fn |-> "idle", message |-> <<>>]
    /\ call_result = NoResult

\* The user changes a tracked file in the work tree.
EditFile(i) ==
    /\ repo_files[i].head \/ repo_files[i].staged
    /\ ~repo_files[i].dirty
    /\ repo_files' = [repo_files EXCEPT ![i].dirty = TRUE]
    /\ UNCHANGED <<repo_commits, git_invocations, call, call_result>>
    /\ UNCHANGED <<summaryVars, diffVars, aiVars, mainVars>>

\* git add: a new file, or the work tree's change of a tracked file.
StageFile(i) ==
    /\ repo_files[i].dirty \/ (~repo_files[i].head /\ ~repo_files[i].staged)
    /\ repo_files' = [repo_files EXCEPT ![i].staged = TRUE, ![i].dirty = FALSE]
    /\ UNCHANGED <<repo_commits, git_invocations, call, call_result>>
    /\ UNCHANGED <<summaryVars, diffVars, aiVars, mainVars>>

NextCall(fn, message) == [seq |-> call.seq + 1, fn |-> fn, message |-> message]

\* has_staged_files(repo_path)
CallHasStagedFiles ==
    /\ call.seq < MaxCalls
    /\ call' = NextCall("has_staged_files", <<>>)
    /\ git_invocations' =
         Append(git_invocations, <<"status", "--porcelain", "--untracked-files=no">>)
    /\ call_result' = Ok(Trim(GitStatusPorcelain(repo_files)) # <<>>)
    /\ UNCHANGED <<repo_files, repo_commits>>
    /\ UNCHANGED <<summaryVars, diffVars, aiVars, mainVars>>

\* What `git commit` does to the index: the staged changes become HEAD's.
Committed(files) ==
    [i \in 1..Len(files) |->
        IF files[i].staged
        THEN [head |-> TRUE, staged |-> FALSE, dirty |-> files[i].dirty]
        ELSE files[i]]

AnyStaged(files) == \E i \in 1..Len(files) : files[i].staged

\* commit_staged_files(repo_path, message)
CallCommitStagedFiles(message) ==
    /\ call.seq < MaxCalls
    /\ call' = NextCall("commit_staged_files", message)
    /\ IF IsEmptyMessage(message) THEN
           /\ call_result' = Err(<<Ctx("Commit message cannot be empty.", <<>>)>>)
           /\ UNCHANGED <<repo_files, repo_commits, git_invocations>>
       ELSE
           /\ git_invocations' = Append(git_invocations, <<"commit", "-m", message>>)
           /\ IF AnyStaged(repo_files) THEN
                  /\ repo_files' = Committed(repo_files)
                  /\ repo_commits' = Append(repo_commits, message)
                  /\ call_result' = Ok("stdout")
              ELSE
                  /\ call_result' = GitFailed("Failed to commit staged files",
                                              <<"commit", "-m", message>>)
                  /\ UNCHANGED <<repo_files, repo_commits>>
    /\ UNCHANGED <<summaryVars, diffVars, aiVars, mainVars>>

\* amend_commit(repo_path, message)
CallAmendCommit(message) ==
    /\ call.seq < MaxCalls
    /\ call' = NextCall("amend_commit", message)
    /\ IF IsEmptyMessage(message) THEN
           /\ call_result' = Err(<<Ctx("Commit message for amend cannot be empty.", <<>>)>>)
           /\ UNCHANGED <<repo_files, repo_commits, git_invocations>>
       ELSE
           /\ git_invocations' =
                Append(git_invocations, <<"commit", "--amend", "-m", message>>)
           /\ IF repo_commits # <<>> THEN
                  /\ repo_files' = Committed(repo_files)
                  /\ repo_commits' = [repo_commits EXCEPT ![Len(repo_commits)] = message]
                  /\ call_result' = Ok("stdout")
              ELSE
                  /\ call_result' = GitFailed("Failed to execute 'git commit --amend -m'",
                                              <<"commit", "--amend", "-m", message>>)
                  /\ UNCHANGED <<repo_files, repo_commits>>
    /\ UNCHANGED <<summaryVars, diffVars, aiVars, mainVars>>

RepoNext ==
    \/ \E i \in 1..MaxRepoFiles : EditFile(i)
    \/ \E i \in 1..MaxRepoFiles : StageFile(i)
    \/ CallHasStagedFiles
    \/ \E message \in BlankMessages \cup TextMessages : CallCommitStagedFiles(message)
    \/ \E message \in BlankMessages \cup TextMessages : CallAmendCommit(message)

RepoSpec == RepoInit /\ [][RepoNext]_vars

-----------------------------------------------------------------------------
(* Vocabulary of the properties of preprocess_diff_for_ai.                 *)

\* The lines of the text the call was given, as str::lines() reads them.
InputLines == StrLines(raw_diff)

\* The loop is about to take the line `line`.
AtLine(line) == diff_pc = "loop" /\ lines_iter # <<>> /\ Head(lines_iter) = line

AnyLine == IF lines_iter = <<>> THEN <<>> ELSE Head(lines_iter)

\* The line begins with one of the fixed header prefixes.
BeginsWithHeaderPrefix(line) ==
    \E i \in 1..Len(HeaderPrefixes) :
        /\ Len(line) >= Len(HeaderPrefixes[i])
        /\ \A k \in 1..Len(HeaderPrefixes[i]) : line[k] = HeaderPrefixes[i][k]

FirstIs(line, ch) == line # <<>> /\ line[1] = ch

\* What the contract says becomes of one line.
Transformed(line) ==
    IF BeginsWithHeaderPrefix(line) THEN line
    ELSE IF FirstIs(line, PLUS) THEN AddedMarker \o Tail(line)
    ELSE IF FirstIs(line, DASH) THEN RemovedMarker \o Tail(line)
    ELSE line

\* The loop pushes `out` and nothing else.
PushesOnly(out) == processed_lines' = processed_lines \o <<out>>

\* C12: a line whose first character is '+' (resp. '-') and which is not a
\* header line is pushed as "[ADDED_LINE]: " (resp. "[REMOVED_LINE]: ")
\* followed by the rest of the line after its first character, unchanged.
C12_SignedLinesGetMarker ==
    [][ \A line \in {AnyLine} :
          AtLine(line) /\ ~BeginsWithHeaderPrefix(line) =>
            /\ FirstIs(line, PLUS) => PushesOnly(AddedMarker \o Tail(line))
            /\ FirstIs(line, DASH) => PushesOnly(RemovedMarker \o Tail(line)) ]_vars

\* "- +a" and "+ -a" have been pushed with their inner spaces and signs.
C12_Witness ==
    /\ diff_pc = "returned" /\ diff_pass = 1
    /\ InputLines = << <<45, 32, 43, 97>>, <<43, 32, 45, 97>> >>
    /\ processed_lines = << RemovedMarker \o <<32, 43, 97>>, AddedMarker \o <<32, 45, 97>> >>

\* C13: a line that begins with a header prefix, and a line that begins
\* with neither '+' nor '-', is pushed unchanged; a line beginning "+++" or
\* "---" is never given a marker.
C13_HeadersAndContextUnchanged ==
    [][ \A line \in {AnyLine} :
          AtLine(line) =>
            /\ BeginsWithHeaderPrefix(line) => PushesOnly(line)
            /\ ~FirstIs(line, PLUS) /\ ~FirstIs(line, DASH) => PushesOnly(line)
            /\ Len(line) >= 3 /\ line[1] = line[2] /\ line[2] = line[3]
                 /\ line[1] \in {PLUS, DASH} => PushesOnly(line) ]_vars

\* "--- x" and "----" went through unchanged, "+---" between them did not.
C13_Witness ==
    /\ diff_pc = "loop" /\ diff_pass = 1 /\ lines_iter = <<>>
    /\ InputLines = << <<45, 45, 45, 32, 120>>, <<43, 45, 45, 45>>, <<45, 45, 45, 45>> >>
    /\ processed_lines = << InputLines[1], AddedMarker \o <<45, 45, 45>>, InputLines[3] >>

\* The call of the given pass has returned.
Returned(pass) == diff_pc = "returned" /\ diff_pass = pass

\* The lines of the text the call returned, as str::lines() reads them.
OutputLines == StrLines(annotated)

EndsWithEmptyLine(lines) == lines # <<>> /\ lines[Len(lines)] = <<>>

\* C14, as the claim states it: the output has as many lines as the input
\* and its i-th line is the transform of the i-th input line, also for an
\* input that ends with empty lines.
C14_SameLineCount ==
    Returned(1) =>
        /\ Len(OutputLines) = Len(InputLines)
        /\ \A i \in 1..Len(InputLines) : OutputLines[i] = Transformed(InputLines[i])

\* C14, amended: the loop pushes one line per input line, in order, the
\* i-th being the transform of the i-th input line; the returned text has as
\* many lines as the input when the input's last line is not empty, and one
\* fewer when it is.
C14_LineForLine ==
    /\ diff_pc \in {"loop", "returned"} =>
        /\ Len(processed_lines) + Len(lines_iter) = Len(InputLines)
        /\ \A i \in 1..Len(processed_lines) :
              processed_lines[i] = Transformed(InputLines[i])
    /\ diff_pc = "returned" =>
        Len(OutputLines) =
            IF EndsWithEmptyLine(InputLines)
            THEN Len(InputLines) - 1 ELSE Len(InputLines)

\* "a\n\n+": three lines in, three out, and "a\n\n" loses its empty line.
C14_Witness ==
    /\ Returned(1)
    /\ \/ /\ raw_diff = <<97, 10, 10, 43>>
          /\ OutputLines = << <<97>>, <<>>, AddedMarker >>
       \/ /\ raw_diff = <<97, 10, 10>>
          /\ OutputLines = << <<97>> >>

\* C15: the call never fails; the returned text is the pushed lines with
\* exactly one newline between consecutive lines and none after the last;
\* the empty input gives the empty output.
C15_TotalAndJoined ==
    /\ diff_pc # "panicked"
    /\ diff_pc = "returned" =>
        /\ processed_lines = <<>> => annotated = <<>>
        /\ processed_lines # <<>> => Split(annotated, LF) = processed_lines
        /\ raw_diff = <<>> => annotated = <<>>

\* A marked line and a line of two bytes joined by one newline.
C15_Witness ==
    /\ Returned(1)
    /\ raw_diff = <<43, 13, 10, 195, 169>>
    /\ annotated = AddedMarker \o <<10, 195, 169>>

\* C16, as the claim states it: in the second pass a line that begins with
\* '+' or '-' after the first pass is given a (second) marker.
C16_SecondPassMarks ==
    [][ \A line \in {AnyLine} :
          AtLine(line) /\ diff_pass = 2
              /\ (FirstIs(line, PLUS) \/ FirstIs(line, DASH)) =>
            \E marker \in {AddedMarker, RemovedMarker} :
                PushesOnly(marker \o Tail(line)) ]_vars

\* C16, amended: the second pass pushes every line of the first pass's
\* output unchanged, so no line ever carries two markers; the only lines
\* that begin with '+' or '-' after the first pass are "+++"/"---" headers.
C16_SecondPassChangesNoLine ==
    [][ \A line \in {AnyLine} :
          AtLine(line) /\ diff_pass = 2 =>
            /\ PushesOnly(line)
            /\ FirstIs(line, PLUS) \/ FirstIs(line, DASH) =>
                 StartsWith(line, <<line[1], line[1], line[1]>>) ]_vars

\* The second pass has gone over a marked line and a "---" header.
C16_Witness ==
    /\ Returned(2)
    /\ raw_diff = <<45, 45, 45, 32, 120, 10>> \o AddedMarker \o <<45, 45, 45, 10, 45, 45, 45, 45>>
    /\ annotated = raw_diff

-----------------------------------------------------------------------------
(* Vocabulary of the properties of process_api_response_candidates.        *)

RECURSIVE Flatten(_)
Flatten(seqs) == IF seqs = <<>> THEN <<>> ELSE seqs[1] \o Flatten(Tail(seqs))

\* The lines of one part that pass filtering, as they are returned.
PassingOfPart(part) ==
    IF part.text = None THEN <<>>
    ELSE LET lines == StrLines(BlockText(part.text[1]))
         IN  Flatten([i \in 1..Len(lines) |-> SuggestionOfLine(lines[i])])

PassingOfCandidate(candidate) ==
    LET parts == IF candidate.content = None \/ candidate.content[1].parts = None
                 THEN <<>> ELSE candidate.content[1].parts[1]
    IN  Flatten([i \in 1..Len(parts) |-> PassingOfPart(parts[i])])

\* The lines of the response that pass filtering, in order of candidate,
\* then part, then line.
PassingLines ==
    IF api_response_candidates = None THEN <<>>
    ELSE LET v == api_response_candidates[1]
         IN  Flatten([i \in 1..Len(v) |-> PassingOfCandidate(v[i])])

AiReturned == ai_pc = "returned"

\* C17: at most max_suggestions_to_return suggestions are returned, and they
\* are the first of the passing lines in order of candidate, part and line;
\* when no more lines pass than were requested, all of them are returned.
C17_FirstPassingLines ==
    AiReturned =>
        /\ ai_result.tag = "Ok" =>
            /\ Len(ai_result.value) <= max_suggestions_to_return
            /\ Len(ai_result.value) <= Len(PassingLines)
            /\ ai_result.value = SubSeq(PassingLines, 1, Len(ai_result.value))
            /\ Len(ai_result.value) < max_suggestions_to_return =>
                 ai_result.value = PassingLines
        /\ PassingLines # <<>> /\ Len(PassingLines) <= max_suggestions_to_return =>
             ai_result = Ok(PassingLines)

\* Two of the five passing lines of two candidates (three parts) are
\* returned, and three where three are asked for.
C17_Witness ==
    /\ AiReturned
    /\ api_response_candidates =
         Some(<<CandidateOf(<<Some(TextOne), Some(TextTwo)>>), CandidateOf(<<Some(TextTwo)>>)>>)
    /\ max_suggestions_to_return = 2
    /\ ai_result = Ok(<<TextOne, <<102, 101, 97, 116, 58, 32, 97>>>>)

-----------------------------------------------------------------------------
(* Vocabulary of the properties of the git wrappers.                       *)

\* This step is a call of `fn`.
Calls(fn) == call'.seq = call.seq + 1 /\ call'.fn = fn

ErrorIs(res, msg) == res = Err(<<Ctx(msg, <<>>)>>)

RepositoryUnchanged == repo_files' = repo_files /\ repo_commits' = repo_commits

\* C19: commit_staged_files and amend_commit, given a message that is empty
\* or only whitespace, return their "cannot be empty" error without
\* invoking git, and the repository is left unchanged.
C19_BlankMessageRejected ==
    [][ /\ Calls("commit_staged_files") /\ call'.message \in BlankMessages =>
            /\ ErrorIs(call_result', "Commit message cannot be empty.")
            /\ git_invocations' = git_invocations
            /\ RepositoryUnchanged
        /\ Calls("amend_commit") /\ call'.message \in BlankMessages =>
            /\ ErrorIs(call_result', "Commit message for amend cannot be empty.")
            /\ git_invocations' = git_invocations
            /\ RepositoryUnchanged ]_vars

\* With a file staged and a commit to amend, both calls were made with a
\* whitespace-only message and git was never run.
C19_Witness ==
    /\ call.seq = 2
    /\ call.fn = "amend_commit"
    /\ call.message = <<32, 9, 10>>
    /\ ErrorIs(call_result, "Commit message for amend cannot be empty.")
    /\ AnyStaged(repo_files)
    /\ repo_commits # <<>>
    /\ git_invocations = <<>>

\* C20: has_staged_files returns true if and only if at least one file is
\* staged; with nothing staged it returns false, also when tracked files
\* have modifications that are not staged.
C20_TrueIffStaged ==
    [][ Calls("has_staged_files") =>
          call_result' = Ok(\E i \in 1..Len(repo_files) : repo_files[i].staged) ]_vars

-----------------------------------------------------------------------------
(* get_binary_status_map on its own: one status report, every numstat      *)
(* report of up to MaxNumstatFields of the fields below.                   *)

NumstatShapes ==
    { <<>>,                                        \* a stray NUL
      <<45, 9, 45, 9, 97>>,                        \* "-\t-\ta"
      <<49, 9, 49, 9, 97>>,                        \* "1\t1\ta"
      <<45, 9, 49, 9, 97>>,                        \* "-\t1\ta"
      <<49, 9, 45, 9, 97>>,                        \* "1\t-\ta"
      <<45, 9, 45, 9>>,                            \* "-\t-\t"
      <<49, 9, 49, 9>>,                            \* "1\t1\t"
      <<45, 9, 45>>,                               \* "-\t-"
      <<49, 9, 45>>,                               \* "1\t-"
      <<45, 9, 45, 9, 53, 48, 37>>,                \* "-\t-\t50%"
      <<49, 9, 49, 9, 43, 53, 37>>,                \* "1\t1\t+5%"
      <<49, 9, 49, 9>> \o U32MaxDigits \o <<54, 37>>,  \* "1\t1\t42949672956%"
      <<49, 9, 49, 9, 37>>,                        \* "1\t1\t%"
      <<97>>,                                      \* "a"
      <<45, 9, 45, 9, 97, 9, 98>>,                 \* "-\t-\ta\tb"
      <<255>> }                                    \* not UTF-8

\* "A  a"
StatusForNumstat == <<65, 32, 32, 97, 0>>

NumstatInit ==
    /\ \E input \in {<<(<<>>), (<<>>)>>}
                       \cup ({StatusForNumstat} \X Reports(NumstatShapes, MaxNumstatFields)) :
           /\ status_check_output_bytes = input[1]
           /\ numstat_output_bytes = input[2]
    /\ DiffIdle /\ AiIdle /\ RepoIdle /\ MainIdle
    /\ pc = "call"
    /\ fields_iter = <<>>
    /\ binary_map = EmptyMap
    /\ status_fields_iter = <<>>
    /\ summary = DefaultSummary
    /\ result = NoResult

NumstatSpec == NumstatInit /\ [][Next]_vars

-----------------------------------------------------------------------------
(* Vocabulary of the properties of get_binary_status_map.                  *)

\* The numstat loop is about to read a lead that decodes.
AtNumstatLead == pc = "numstat" /\ fields_iter # <<>> /\ IsUtf8(fields_iter[1])

NumstatLead == fields_iter[1]

\* The tab-separated columns of the lead.
Columns == Split(NumstatLead, TAB)

\* One or more decimal digits followed by '%'.
IsDigitsPercent(col) ==
    /\ Len(col) >= 2
    /\ col[Len(col)] = PERCENT
    /\ \A i \in 1..(Len(col) - 1) : col[i] \in 48..57

\* The record goes on with an old path and a new path that decodes.
TwoPathsFollow == Len(fields_iter) >= 3 /\ IsUtf8(fields_iter[3])

\* The step takes `n` fields after the lead and sets the map's entry for
\* `key` to the lead's binary flag, nothing else.
TakesAndKeys(n, key) ==
    /\ pc' = "numstat"
    /\ fields_iter' = SubSeq(fields_iter, n + 2, Len(fields_iter))
    /\ DOMAIN binary_map' = DOMAIN binary_map \cup {key}
    /\ \A k \in DOMAIN binary_map : k # key => binary_map'[k] = binary_map[k]

BothDashes == Columns[1] = <<DASH>> /\ Columns[2] = <<DASH>>

\* Every field of the numstat report is text.
NumstatDecodes ==
    \A f \in Range(Split(numstat_output_bytes, NUL)) : IsUtf8(f)

\* C21: no malformed numstat record makes the call fail: whatever the shape
\* of the records of a numstat report that decodes, the call returns a
\* summary.
C21_MalformedNumstatNeverFails ==
    pc = "returned" /\ NumstatDecodes /\ status_check_output_bytes = StatusForNumstat
        => result.tag = "Ok"

\* C22: a lead whose number of columns is neither 2 nor 3 is skipped: no
\* map entry, no error, no further field consumed; the next field is read
\* as a lead.
C22_OtherShapeSkipped ==
    [][ AtNumstatLead /\ Len(Columns) \notin {2, 3} =>
          /\ pc' = "numstat"
          /\ result' = result
          /\ binary_map' = binary_map
          /\ fields_iter' = Tail(fields_iter) ]_vars

\* "a" and "-\t-\ta\tb" were skipped and "1\t1\ta" after them was read.
C22_Witness ==
    /\ pc = "numstat"
    /\ numstat_output_bytes =
         <<97, 0>> \o <<45, 9, 45, 9, 97, 9, 98, 0>> \o <<49, 9, 49, 9, 97, 0>>
    /\ fields_iter = <<>>
    /\ binary_map = (<<97>> :> FALSE)

\* C23: a three-column lead with an empty third column takes exactly two
\* further fields and keys the map by the new path; a three-column lead
\* whose third column is a path takes none and keys the map by that column;
\* a two-column lead takes exactly two and keys the map by the new path.
C23_FieldsTakenByLead ==
    [][ AtNumstatLead =>
          /\ Len(Columns) = 3 /\ Columns[3] = <<>> /\ TwoPathsFollow =>
                TakesAndKeys(2, fields_iter[3])
          /\ Len(Columns) = 3 /\ Columns[3] # <<>> /\ ~IsDigitsPercent(Columns[3]) =>
                TakesAndKeys(0, Columns[3])
          /\ Len(Columns) = 2 /\ TwoPathsFollow =>
                TakesAndKeys(2, fields_iter[3]) ]_vars

\* C24: the third column of a three-column lead is a similarity score (two
\* more fields, keyed by the new path) exactly when it is one or more
\* decimal digits followed by '%'; any other non-empty third column is the
\* path.
C24_ScoreIffDigitsPercent ==
    [][ AtNumstatLead /\ Len(Columns) = 3 /\ Columns[3] # <<>> /\ TwoPathsFollow =>
          IF IsDigitsPercent(Columns[3])
          THEN fields_iter' = SubSeq(fields_iter, 4, Len(fields_iter))
                 /\ fields_iter[3] \in DOMAIN binary_map'
          ELSE fields_iter' = Tail(fields_iter)
                 /\ Columns[3] \in DOMAIN binary_map' ]_vars

\* C25: the path of a record is mapped to true if and only if the first two
\* columns of its lead are both exactly "-", in all four record shapes.
C25_BinaryIffBothDashes ==
    [][ AtNumstatLead /\ Len(Columns) \in {2, 3} /\ pc' = "numstat" =>
          LET key == IF Len(fields_iter') = Len(fields_iter) - 3
                     THEN fields_iter[3] ELSE Columns[3]
          IN  /\ key \in DOMAIN binary_map'
              /\ binary_map'[key] = BothDashes ]_vars

\* "1\t-" followed by the paths a and a: a is mapped to false.
C25_Witness ==
    /\ pc = "numstat"
    /\ fields_iter = <<>>
    /\ numstat_output_bytes = <<49, 9, 45, 0, 97, 0, 97, 0>>
    /\ binary_map = (<<97>> :> FALSE)

\* C26: a status lead shorter than 3 bytes is skipped without error, without
\* an entry and without consuming a further field; for every lead of 3
\* bytes or more the record is read with the bytes from offset 3 to the end
\* of the lead as its path (a deletion is entered under exactly that path).
C26_PathFromOffsetThree ==
    [][ AtLead /\ IsUtf8(Lead) =>
          /\ Len(Lead) < 3 =>
                /\ pc' = "status"
                /\ result' = result
                /\ summary' = summary
                /\ status_fields_iter' = Tail(status_fields_iter)
          /\ Len(Lead) >= 3 =>
                /\ pc' # "panicked"
                /\ Lead[1] = 68 =>
                     summary' = [summary EXCEPT !.structure_changes =
                                    Append(@, FmtDeleted(PathOf(Lead)))] ]_vars

-----------------------------------------------------------------------------
\* The length of the list marker the line begins with: "- ", "* ", or a run
\* of digits followed by ". "; 0 when it begins with none.
MarkerLen(t) ==
    LET digits == CHOOSE n \in 0..Len(t) :
                      /\ \A i \in 1..n : t[i] \in 48..57
                      /\ n < Len(t) => t[n + 1] \notin 48..57
    IN  IF Len(t) >= 2 /\ t[1] \in {45, 42} /\ t[2] = 32 THEN 2
        ELSE IF digits >= 1 /\ Len(t) >= digits + 2
                  /\ t[digits + 1] = 46 /\ t[digits + 2] = 32 THEN digits + 2
        ELSE 0

\* C27: a line that begins with a list marker, when it is returned, is
\* returned without the marker, whatever the rest of the line contains.
C27_ListMarkerRemoved ==
    [][ ai_pc = "loop" /\ ai_cursor.lines # <<>> =>
          LET t == Trim(Head(ai_cursor.lines))
          IN  MarkerLen(t) > 0 /\ suggestions' # suggestions =>
                suggestions' = Append(suggestions, Trim(SubSeq(t, MarkerLen(t) + 1, Len(t)))) ]_vars

-----------------------------------------------------------------------------
(* main and interactive_commit_loop (src/main.rs). The calls into git and  *)
(* ai are answered by the environment with any of the results those        *)
(* functions can return; main_calls keeps them in the order they are made. *)

\* The rounds of interactive_commit_loop explored: the user chooses
\* Regenerate at most MaxRounds - 1 times.
MaxRounds == 2

\* The longest list of suggestions the service is made to return.
MaxSuggestionsShown == 2

\* let num_variations_to_request = 5;
NumVariationsToRequest == 5

\* Args::determine_mode
DetermineMode(a) ==
    IF ~a.interactive /\ ~a.amend THEN "Auto"
    ELSE IF a.interactive /\ ~a.amend THEN "Interactive"
    ELSE IF ~a.interactive /\ a.amend THEN "AmendAuto"
    ELSE "AmendInteractive"

\* "\u{1F504} Regenerate suggestions"
REGENERATE_OPTION ==
    <<240, 159, 148, 132, 32, 82, 101, 103, 101, 110, 101, 114, 97, 116, 101, 32, 115, 117, 103, 103, 101, 115, 116, 105, 111, 110, 115>>

\* "\u{274C} Cancel and exit"
CANCEL_OPTION ==
    <<226, 157, 140, 32, 67, 97, 110, 99, 101, 108, 32, 97, 110, 100, 32, 101, 120, 105, 116>>

\* Mutant of NothingToDo: the check stops the run in every mode.
NothingToDo_AnyMode(mode, amend, staged) == ~staged

\* Lines 149-166: does the run stop because nothing is staged?
NothingToDo(mode, amend, staged) ==
    IF mode \notin {"Auto", "Interactive"}
    THEN ~staged /\ mode \notin {"AmendAuto", "AmendInteractive"} /\ ~amend
    ELSE ~staged

\* prompt::build_prompt: the prompt is a function of its four arguments.
BuildPrompt(diff_content, summary_arg, num_suggestions, previous_message) ==
    [diff_content |-> diff_content, changes_summary |-> summary_arg,
     num_suggestions |-> num_suggestions, previous_message |-> previous_message]

\* What ai::generate_text(prompt, n) can return for n >= 1: an error, or
\* between 1 and n suggestions (process_api_response_candidates truncates
\* to n and fails on an empty list). The lists explored alternate
\* "feat: a" and "fix: b", starting with either.
GenerateTextResults(n) ==
    {Err(<<Ctx("Failed to send request to Gemini API", <<>>)>>)}
    \cup { Ok([i \in 1..k |-> IF (i + first) % 2 = 0
                              THEN <<102, 101, 97, 116, 58, 32, 97>>
                              ELSE <<102, 105, 120, 58, 32, 98>>]) :
               k \in 1..(IF n < MaxSuggestionsShown THEN n ELSE MaxSuggestionsShown),
               first \in {0, 1} }

\* InquireError::OperationCanceled
OperationCanceled == Err(<<Ctx("OperationCanceled", <<>>)>>)

\* What commit_staged_files and amend_commit can return for the message.
CommitResults(fn, message) ==
    IF IsEmptyMessage(message)
    THEN {Err(<<Ctx("Commit message cannot be empty.", <<>>)>>)}
    ELSE {Ok("stdout"), GitFailed("Failed to commit", <<fn, message>>)}

MainInit ==
    /\ SummaryIdle /\ DiffIdle /\ AiIdle /\ RepoIdle
    /\ args \in [interactive : BOOLEAN, amend : BOOLEAN]
    /\ main_pc = "start"
    /\ main_calls = <<>>
    /\ previous_commit_msg = None
    /\ preprocessed_diff_text = <<>>
    /\ changes_summary = DefaultSummary
    /\ suggestions_result = NoResult
    /\ prompt_result = NoResult
    /\ loop_result = NoResult
    /\ main_result = NoResult

\* Lines 145-166: the current directory, then the staged-files check.
CheckStaged ==
    /\ main_pc = "start"
    /\ \/ /\ main_result' = Err(<<Ctx("Failed to get current directory", <<>>)>>)
          /\ main_pc' = "done"
          /\ UNCHANGED main_calls
       \/ \E res \in {Ok(TRUE), Ok(FALSE),
                      GitFailed("Failed to check for staged files", <<"status">>)} :
             /\ main_calls' = Append(main_calls, [fn |-> "has_staged_files", arg |-> <<>>, result |-> res])
             /\ IF res.tag = "Err" THEN
                    main_result' = res /\ main_pc' = "done"
                ELSE IF NothingToDo(DetermineMode(args), args.amend, res.value) THEN
                    main_result' = Ok(<<>>) /\ main_pc' = "done"
                ELSE
                    /\ main_result' = main_result
                    /\ main_pc' = IF DetermineMode(args) \in {"Auto", "Interactive"}
                                  THEN "read" ELSE "previous"
    /\ UNCHANGED <<args, previous_commit_msg, preprocessed_diff_text, changes_summary,
                   suggestions_result, prompt_result, loop_result>>
    /\ UNCHANGED <<summaryVars, diffVars, aiVars, repoVars>>

\* Lines 305-317: the amend modes read the previous commit message.
ReadPreviousMessage ==
    /\ main_pc = "previous"
    /\ \E res \in {Ok(Some(TextOne)), Ok(None),
                   GitFailed("Failed to get previous commit message for amend operation",
                             <<"log">>)} :
          /\ main_calls' = Append(main_calls,
                                   [fn |-> "get_previous_commit_message", arg |-> <<>>, result |-> res])
          /\ IF res.tag = "Err" THEN
                 /\ main_result' = res
                 /\ main_pc' = "done"
                 /\ UNCHANGED previous_commit_msg
             ELSE IF res.value = None THEN
                 /\ main_result' = Err(<<Ctx("Cannot amend: No previous commit found in this repository.", <<>>)>>)
                 /\ main_pc' = "done"
                 /\ UNCHANGED previous_commit_msg
             ELSE
                 /\ previous_commit_msg' = res.value
                 /\ main_pc' = "read"
                 /\ UNCHANGED main_result
    /\ UNCHANGED <<args, preprocessed_diff_text, changes_summary, suggestions_result,
                   prompt_result, loop_result>>
    /\ UNCHANGED <<summaryVars, diffVars, aiVars, repoVars>>

\* The staged diff is read and annotated, then the summary is read
\* (lines 170-198, 244-270, 319-340).
ReadStagedChanges ==
    /\ main_pc = "read"
    /\ \E diff \in {Ok(<<>>), Ok(<<43, 97>>),
                    GitFailed("Failed to get staged diff", <<"diff">>)} :
          LET \* diff::preprocess_diff_for_ai, on lines annotated without a panic
              PreprocessDiffForAi(raw) ==
                  JoinWith([i \in 1..Len(StrLines(raw)) |->
                               AnnotateLine(StrLines(raw)[i]).line], <<LF>>)
              diffCall == [fn |-> "get_staged_diff", arg |-> <<>>, result |-> diff]
          IN  IF diff.tag = "Err" THEN
                  /\ main_calls' = Append(main_calls, diffCall)
                  /\ main_result' = diff
                  /\ main_pc' = "done"
                  /\ UNCHANGED <<preprocessed_diff_text, changes_summary>>
              ELSE
                  \E sum \in {Ok(DefaultSummary),
                              Ok([binary_file_changes |-> <<>>,
                                  structure_changes |-> <<<<97, 100, 100, 101, 100, 32, 102, 105, 108, 101, 58, 32, 97>>>>]),
                              GitFailed("Failed to get staged changes", <<"status">>)} :
                     /\ main_calls' = main_calls \o
                            <<diffCall, [fn |-> "get_staged_changes_summary", arg |-> <<>>, result |-> sum]>>
                     /\ preprocessed_diff_text' =
                            IF diff.value # <<>> THEN PreprocessDiffForAi(diff.value)
                            ELSE <<>>
                     /\ IF sum.tag = "Err" THEN
                            /\ main_result' = sum
                            /\ main_pc' = "done"
                            /\ UNCHANGED changes_summary
                        ELSE
                            /\ changes_summary' = sum.value
                            /\ main_pc' = IF args.interactive THEN "loop" ELSE "auto"
                            /\ UNCHANGED main_result
    /\ UNCHANGED <<args, previous_commit_msg, suggestions_result, prompt_result,
                   loop_result>>
    /\ UNCHANGED <<summaryVars, diffVars, aiVars, repoVars>>

\* io::stdout().flush()? failing
FlushFailed == Err(<<Ctx("failed to flush stdout", <<>>)>>)

\* Auto and AmendAuto (lines 200-241, 342-383): one request for one
\* suggestion, then the commit or the amend with the first suggestion.
AutoRun ==
    /\ main_pc = "auto"
    /\ main_pc' = "done"
    /\ \/ main_result' = FlushFailed /\ UNCHANGED main_calls
       \/ \E res \in GenerateTextResults(1) :
             LET prompt_str == BuildPrompt(preprocessed_diff_text, changes_summary, 1,
                                           previous_commit_msg)
                 CommitFn == IF args.amend THEN "amend_commit" ELSE "commit_staged_files"
                 request == [fn |-> "generate_text", arg |-> <<prompt_str, 1>>, result |-> res]
                 commit_message ==
                     IF res.tag = "Ok" /\ Len(res.value) >= 1
                     THEN Trim(res.value[1]) ELSE <<>>
             IN  IF res.tag = "Err" THEN
                     /\ main_calls' = Append(main_calls, request)
                     /\ main_result' = res
                 ELSE IF commit_message = <<>> THEN
                     /\ main_calls' = Append(main_calls, request)
                     /\ main_result' = Err(<<Ctx("AI returned an empty or invalid commit message.", <<>>)>>)
                 ELSE
                     \E done \in CommitResults(CommitFn, commit_message) :
                        /\ main_calls' = main_calls \o
                               <<request, [fn |-> CommitFn, arg |-> <<commit_message>>, result |-> done]>>
                        /\ main_result' = IF done.tag = "Ok" THEN Ok(<<>>) ELSE done
    /\ UNCHANGED <<args, previous_commit_msg, preprocessed_diff_text, changes_summary,
                   suggestions_result, prompt_result, loop_result>>
    /\ UNCHANGED <<summaryVars, diffVars, aiVars, repoVars>>

\* interactive_commit_loop, lines 59-84: the prompt is built, standard
\* output is flushed, the request is sent.
LoopGenerate ==
    /\ main_pc = "loop"
    /\ \/ /\ loop_result' = FlushFailed
          /\ main_pc' = "returned"
          /\ UNCHANGED <<main_calls, suggestions_result, prompt_result>>
       \/ \E res \in GenerateTextResults(NumVariationsToRequest) :
             LET prompt_str == BuildPrompt(preprocessed_diff_text, changes_summary,
                                           NumVariationsToRequest, previous_commit_msg)
             IN  /\ main_calls' = Append(main_calls,
                        [fn |-> "generate_text", arg |-> <<prompt_str, NumVariationsToRequest>>, result |-> res])
                 /\ suggestions_result' = res
                 /\ prompt_result' = NoResult
                 /\ main_pc' = "prompt"
                 /\ UNCHANGED loop_result
    /\ UNCHANGED <<args, previous_commit_msg, preprocessed_diff_text, changes_summary,
                   main_result>>
    /\ UNCHANGED <<summaryVars, diffVars, aiVars, repoVars>>

\* Mutant of AfterPrompt: the Cancel item is returned as the selection.
AfterPrompt_CancelSelects(answer) ==
    IF answer.tag = "Ok" THEN
        IF answer.value = REGENERATE_OPTION
        THEN [continue |-> TRUE, result |-> NoResult]
        ELSE [continue |-> FALSE, result |-> Ok(Some(answer.value))]
    ELSE IF answer = OperationCanceled
    THEN [continue |-> FALSE, result |-> Ok(None)]
    ELSE [continue |-> FALSE, result |-> answer]

\* Mutant of AfterPrompt: Regenerate leaves the loop.
AfterPrompt_RegenerateReturns(answer) ==
    IF answer.tag = "Ok" THEN
        IF answer.value = REGENERATE_OPTION \/ answer.value = CANCEL_OPTION
        THEN [continue |-> FALSE, result |-> Ok(None)]
        ELSE [continue |-> FALSE, result |-> Ok(Some(answer.value))]
    ELSE IF answer = OperationCanceled
    THEN [continue |-> FALSE, result |-> Ok(None)]
    ELSE [continue |-> FALSE, result |-> answer]

\* The three `match ... .prompt()` of the loop (lines 90-96, 107-112,
\* 119-139): continue, or return.
AfterPrompt(answer) ==
    IF answer.tag = "Ok" THEN
        IF answer.value = REGENERATE_OPTION
        THEN [continue |-> TRUE, result |-> NoResult]
        ELSE IF answer.value = CANCEL_OPTION
        THEN [continue |-> FALSE, result |-> Ok(None)]
        ELSE [continue |-> FALSE, result |-> Ok(Some(answer.value))]
    ELSE IF answer = OperationCanceled
    THEN [continue |-> FALSE, result |-> Ok(None)]
    ELSE [continue |-> FALSE, result |-> answer]

\* interactive_commit_loop, lines 86-140: the user answers the prompt.
LoopPrompt ==
    /\ main_pc = "prompt"
    /\ LET \* after an error, or an empty list, the two actions; else the
           \* suggestions followed by the two actions
           options ==
               IF suggestions_result.tag = "Err" \/ suggestions_result.value = <<>>
               THEN <<REGENERATE_OPTION, CANCEL_OPTION>>
               ELSE suggestions_result.value \o <<REGENERATE_OPTION, CANCEL_OPTION>>
           \* what Select::new(.., options).prompt() can return
           answers ==
               { Ok(options[i]) : i \in 1..Len(options) }
               \cup {OperationCanceled, Err(<<Ctx("OperationInterrupted", <<>>)>>)}
           requests ==
               { i \in 1..Len(main_calls) : main_calls[i].fn = "generate_text" }
       IN  \E answer \in answers :
          /\ (answer.tag = "Ok" /\ answer.value = REGENERATE_OPTION)
                 => Cardinality(requests) < MaxRounds
          /\ prompt_result' = answer
          /\ IF AfterPrompt(answer).continue THEN
                 main_pc' = "loop" /\ UNCHANGED loop_result
             ELSE
                 main_pc' = "returned" /\ loop_result' = AfterPrompt(answer).result
    /\ UNCHANGED <<args, main_calls, previous_commit_msg, preprocessed_diff_text,
                   changes_summary, suggestions_result, main_result>>
    /\ UNCHANGED <<summaryVars, diffVars, aiVars, repoVars>>

\* Interactive and AmendInteractive (lines 272-301, 385-423): what main
\* does with the value the loop returned.
LoopReturned ==
    /\ main_pc = "returned"
    /\ main_pc' = "done"
    /\ IF loop_result.tag = "Err" THEN
           main_result' = loop_result /\ UNCHANGED main_calls
       ELSE IF loop_result.value = None THEN
           main_result' = Ok(<<>>) /\ UNCHANGED main_calls
       ELSE
           LET selected_message == loop_result.value[1]
               CommitFn == IF args.amend THEN "amend_commit" ELSE "commit_staged_files"
           IN  \E done \in CommitResults(CommitFn, selected_message) :
                  /\ main_calls' = Append(main_calls,
                         [fn |-> CommitFn, arg |-> <<selected_message>>, result |-> done])
                  /\ main_result' = IF done.tag = "Ok" THEN Ok(<<>>) ELSE done
    /\ UNCHANGED <<args, previous_commit_msg, preprocessed_diff_text, changes_summary,
                   suggestions_result, prompt_result, loop_result>>
    /\ UNCHANGED <<summaryVars, diffVars, aiVars, repoVars>>

MainNext ==
    \/ CheckStaged
    \/ ReadPreviousMessage
    \/ ReadStagedChanges
    \/ AutoRun
    \/ LoopGenerate
    \/ LoopPrompt
    \/ LoopReturned

\* main is sequential code: a step that can be taken is taken once the
\* call it waits for (git, the service, the user at the prompt) answers.
MainFairSpec == MainInit /\ [][MainNext]_vars /\ WF_vars(MainNext)

-----------------------------------------------------------------------------
(* Claims about main and interactive_commit_loop.                          *)

\* The generate_text calls made so far.
Requests == { i \in 1..Len(main_calls) : main_calls[i].fn = "generate_text" }

\* The calls of commit_staged_files and amend_commit made so far.
CommitCalls ==
    { i \in 1..Len(main_calls) :
        main_calls[i].fn \in {"commit_staged_files", "amend_commit"} }

\* The user chose Cancel, or aborted the prompt.
CancelledOrAborted ==
    \/ prompt_result.tag = "Ok" /\ prompt_result.value = CANCEL_OPTION
    \/ prompt_result = OperationCanceled

\* C28: in every run of main the commit (or the amend) is called at most
\* once, and the call just before it is an AI request that returned at least
\* one suggestion; in the auto modes the message is the first suggestion,
\* trimmed and not empty, in the interactive modes it is the item the user
\* selected at the prompt; after Cancel or an aborted prompt there is no
\* commit and the run ends with Ok.
C28_CommitOnceWithChosenMessage ==
    /\ Cardinality(CommitCalls) <= 1
    /\ \A i \in CommitCalls :
          /\ i > 1
          /\ main_calls[i - 1].fn = "generate_text"
          /\ main_calls[i - 1].result.tag = "Ok"
          /\ main_calls[i - 1].result.value # <<>>
          /\ main_calls[i].arg[1] # <<>>
          /\ IF args.interactive
             THEN /\ prompt_result.tag = "Ok"
                  /\ main_calls[i].arg[1] = prompt_result.value
                  /\ \E k \in 1..Len(main_calls[i - 1].result.value) :
                        main_calls[i - 1].result.value[k] = main_calls[i].arg[1]
             ELSE /\ main_calls[i].arg[1] = Trim(main_calls[i - 1].result.value[1])
                  /\ Trim(main_calls[i].arg[1]) = main_calls[i].arg[1]
    /\ CancelledOrAborted =>
          /\ CommitCalls = {}
          /\ main_pc = "done" => main_result = Ok(<<>>)

\* An interactive run in which the user chose Regenerate once, then selected
\* the second of two suggestions, which was committed.
C28_Witness ==
    /\ DetermineMode(args) = "Interactive"
    /\ main_pc = "done"
    /\ Cardinality(Requests) = 2
    /\ prompt_result = Ok(<<102, 105, 120, 58, 32, 98>>)
    /\ suggestions_result = Ok(<<<<102, 101, 97, 116, 58, 32, 97>>, <<102, 105, 120, 58, 32, 98>>>>)
    /\ CommitCalls = {Len(main_calls)}
    /\ main_calls[Len(main_calls)] =
           [fn |-> "commit_staged_files", arg |-> <<<<102, 105, 120, 58, 32, 98>>>>, result |-> Ok("stdout")]
    /\ main_result = Ok(<<>>)

\* C29: in Auto and Interactive modes, when has_staged_files returned false
\* the run has ended with Ok and has_staged_files is the only call made (no
\* diff read, no AI request, no commit); in the two amend modes the run goes
\* on after has_staged_files returned false, and its next call reads the
\* previous commit message.
C29_NothingStagedStopsOnlyWithoutAmend ==
    (Len(main_calls) >= 1 /\ main_calls[1].result = Ok(FALSE)) =>
        IF DetermineMode(args) \in {"Auto", "Interactive"}
        THEN /\ main_pc = "done"
             /\ main_result = Ok(<<>>)
             /\ Len(main_calls) = 1
        ELSE /\ Len(main_calls) = 1 => main_pc = "previous"
             /\ Len(main_calls) >= 2 =>
                    main_calls[2].fn = "get_previous_commit_message"

\* An amend run in which has_staged_files returned false and the previous
\* commit message was read next.
C29_Witness ==
    /\ DetermineMode(args) = "AmendAuto"
    /\ Len(main_calls) = 2
    /\ main_calls[1] = [fn |-> "has_staged_files", arg |-> <<>>, result |-> Ok(FALSE)]
    /\ main_calls[2].fn = "get_previous_commit_message"
    /\ main_calls[2].result = Ok(Some(TextOne))
    /\ main_pc = "read"

\* The loop has returned, and what it returned follows from the answer to
\* the last prompt: a selected suggestion, Cancel, an abort, or a failure of
\* the prompt.
ReturnedOnAnswer ==
    \/ /\ prompt_result.tag = "Ok"
       /\ prompt_result.value # REGENERATE_OPTION
       /\ loop_result = IF prompt_result.value = CANCEL_OPTION THEN Ok(None)
                        ELSE Ok(Some(prompt_result.value))
    \/ prompt_result = OperationCanceled /\ loop_result = Ok(None)
    \/ /\ prompt_result.tag = "Err"
       /\ prompt_result # OperationCanceled
       /\ loop_result = prompt_result

\* The request of every round: the same prompt, built from the diff, the
\* summary and the previous message main passed to the loop.
LoopRequest ==
    <<BuildPrompt(preprocessed_diff_text, changes_summary, NumVariationsToRequest,
                  previous_commit_msg),
      NumVariationsToRequest>>

\* One round of the loop sends one request: a step of the loop that does
\* not return appends one generate_text call with the same prompt and goes
\* to the prompt; the answer to the prompt sends nothing.
OneRequestPerRound ==
    /\ (main_pc = "loop" /\ main_pc' = "prompt") =>
           /\ Len(main_calls') = Len(main_calls) + 1
           /\ main_calls'[Len(main_calls')].fn = "generate_text"
           /\ main_calls'[Len(main_calls')].arg = LoopRequest
           /\ SubSeq(main_calls', 1, Len(main_calls)) = main_calls
           /\ UNCHANGED <<preprocessed_diff_text, changes_summary, previous_commit_msg>>
    /\ main_pc = "loop" => main_pc' \in {"loop", "prompt", "returned"}
    /\ (main_pc = "loop" /\ main_pc' \in {"loop", "returned"}) => UNCHANGED main_calls
    /\ main_pc = "prompt" =>
           /\ UNCHANGED <<main_calls, preprocessed_diff_text, changes_summary,
                          previous_commit_msg>>
           /\ main_pc' = "loop" =>
                  prompt_result'.tag = "Ok" /\ prompt_result'.value = REGENERATE_OPTION

\* C30 as stated: interactive_commit_loop returns only on a selected
\* suggestion, Cancel, an abort or a failure of the prompt.
C30_ReturnsOnlyOnAnswer ==
    loop_result # NoResult => ReturnedOnAnswer

\* C30: interactive_commit_loop returns only on a selected suggestion,
\* Cancel, an abort, a failure of the prompt, or a failure to flush standard
\* output before a request; every round sends exactly one AI request, built
\* from the same diff, summary and previous message, and only a Regenerate
\* choice starts a new round; if the user chooses Regenerate finitely many
\* times (at most MaxRounds - 1 times here) and every request and prompt is
\* answered, the loop returns.
C30_LoopReturnsUnlessRegenerated ==
    /\ [](loop_result # NoResult => (loop_result = FlushFailed \/ ReturnedOnAnswer))
    /\ [][OneRequestPerRound]_vars
    /\ (main_pc = "loop" ~> loop_result # NoResult)

\* The user chose Regenerate after the first request, and the flush before
\* the second request failed: the loop returned the error.
C30_Witness ==
    /\ main_pc = "returned"
    /\ Cardinality(Requests) = 1
    /\ prompt_result = Ok(REGENERATE_OPTION)
    /\ loop_result = FlushFailed

====
